---- MODULE Spec2Model ----
(***************************************************************************)
(* Model of the Mombasa ingestion engine (process_mombasa_data.py): the    *)
(* processing_log ledger, the auction_offers / auction_sales tables with   *)
(* their UNIQUE(source_location, sale_number, lot_number) constraint, the  *)
(* bulk-then-row-by-row insert_data, and process_structured_data.          *)
(***************************************************************************)
EXTENDS Integers, Sequences, FiniteSets, TLC

\* Python None / NaN / SQL NULL.
None == "<None>"

\* ---------------------------------------------------------------------------
\* Bounds of the model
\* ---------------------------------------------------------------------------
\* Number of times the files of the directory are rewritten (touched or edited).
MaxChanges == 1
\* Number of processing attempts that get as far as reading their file (each
\* reads the clock twice).
MaxAttempts == 2
\* Number of such attempts that build the store the two processing orders start from.
MaxSeedAttempts == 1
\* Length of the text of a numeric cell.
MaxTextLen == 4
\* Number of rows of a frame handed to process_lot_details on its own.
MaxRows == 3
\* Number of columns of a frame handed to map_columns on its own.
MaxColumns == 2
\* Number of attempts that read their file, in the runs that a termination of
\* the process interrupts and the runs that follow.
MaxCrashAttempts == 4

\* ---------------------------------------------------------------------------
\* Configuration (process_mombasa_data.py, lines 46-58)
\* ---------------------------------------------------------------------------
SOURCE_LOCATION == "Mombasa"

DATA_TYPE_OFFER == "OFFER"
DATA_TYPE_SALE == "SALE"
DATA_TYPE_SUMMARY == "SUMMARY"
DATA_TYPE_COMMENTARY == "COMMENTARY"

\* A text is a sequence of characters ("" is <<>>).
NOISE_VALUES ==
    {<<"N", "A", "N">>, <<"N", "O", "N", "E">>, <<>>, <<"-">>, <<"N", "I", "L">>,
     <<"N", "/", "A">>, <<"N", "U", "L", "L">>, <<"U", "N", "K", "N", "O", "W", "N">>}

\* ---------------------------------------------------------------------------
\* The directory: file names, and what the filename patterns find in them
\* ---------------------------------------------------------------------------
OfferFile == "Sale_No_42_Offers.csv"
ResultFile == "Results.csv"
SummaryFile == "Sale 42 Summary.csv"

Files == {OfferFile, ResultFile, SummaryFile}

\* Other entries a directory listing can have: a lock file of a spreadsheet
\* program, a market commentary, a file of no known kind.
HiddenFile == "~$Results.xlsx"
CommentaryFile == "Market Report.pdf"
UnrecognizedFile == "README.md"

Listing == Files \cup {HiddenFile, CommentaryFile, UnrecognizedFile}

\* filename.startswith('~') or filename.startswith('.'), line 786.
IsHidden(filename) == filename = HiddenFile

\* The lower-cased substrings identify_file_type looks for that occur in a name.
NameTokens(filename) ==
    CASE filename = OfferFile -> {"sale", "offer"}
      [] filename = ResultFile -> {"result"}
      [] filename = SummaryFile -> {"sale", "summary"}
      [] filename = HiddenFile -> {"result"}
      [] filename = CommentaryFile -> {"market report"}
      [] filename = UnrecognizedFile -> {}

\* os.path.splitext(filename)[1].lower()
Extension(filename) ==
    CASE filename = HiddenFile -> ".xlsx"
      [] filename = CommentaryFile -> ".pdf"
      [] filename = UnrecognizedFile -> ".md"
      [] OTHER -> ".csv"

identify_file_type(filename) ==
    LET name == NameTokens(filename) IN
    IF "generalreport" \in name
    THEN [data_type |-> DATA_TYPE_SALE, structure_type |-> "structured"]
    ELSE IF "offer" \in name \/ "catalogue" \in name
    THEN [data_type |-> DATA_TYPE_OFFER, structure_type |-> "structured"]
    ELSE IF "sale" \in name \/ "result" \in name \/ "price list" \in name
    THEN IF "summary" \in name \/ "average" \in name
         THEN [data_type |-> DATA_TYPE_SUMMARY, structure_type |-> "structured"]
         ELSE [data_type |-> DATA_TYPE_SALE, structure_type |-> "structured"]
    ELSE IF "commentary" \in name \/ "market report" \in name
    THEN [data_type |-> DATA_TYPE_COMMENTARY, structure_type |-> "unstructured"]
    ELSE IF Extension(filename) \in {".csv", ".xls", ".xlsx"}
    THEN [data_type |-> DATA_TYPE_SALE, structure_type |-> "structured"]
    ELSE [data_type |-> None, structure_type |-> None]

\* Names that are not in the directory: one with a sale number and a date in
\* parentheses, one of a GeneralReport export, and three that more than one of
\* the filename patterns matches.
DatedFile == "Sale 43 (14-Oct-2025).csv"
ReportFile == "GeneralReport (7).csv"
OfferDatedFile == "Sale_No_42_Sale 43 (14-Oct-2025).csv"
DatedReportFile == "Sale 43 (14-Oct-2025) GeneralReport (7).csv"
OfferReportFile == "Sale_No_42_GeneralReport (7).csv"

\* parse_date, lines 269-307, on the date texts of the model: the first format
\* of the list that fits gives the ISO date; a text that neither a format nor
\* the generic parser accepts gives None.
parse_date(date_str) ==
    CASE date_str = None -> None
      [] date_str = "14-Oct-2025" -> "2025-10-14"
      [] date_str = "02/09/2025 12:49:12:300" -> "2025-09-02"
      [] date_str = "2025/07/29" -> "2025-07-29"
      [] date_str = "to be confirmed" -> None

\* bool(value) of a string or None.
Truthy(value) == value # None /\ value # ""

\* The result of re.search: no match, or the groups of the leftmost match.
NoMatch == [matched |-> FALSE, groups |-> <<>>]
Match(groups) == [matched |-> TRUE, groups |-> groups]

\* re.search(r"Sale_No_(\d+)_", filename, re.IGNORECASE), line 464.
pattern1(filename) ==
    IF filename \in {OfferFile, OfferDatedFile, OfferReportFile}
    THEN Match(<<"42">>) ELSE NoMatch

\* re.search(r"(\d{1,2}(st|nd|rd|th)?_.*?_\d{4})", filename, re.IGNORECASE),
\* line 468: no name of the model has an underscore before four digits.
date_part_match(filename) == NoMatch

\* re.search(r"Sale\s*(\d+)\s*\((.*?)\)", filename, re.IGNORECASE), line 478.
pattern2(filename) ==
    IF filename \in {DatedFile, OfferDatedFile, DatedReportFile}
    THEN Match(<<"43", "14-Oct-2025">>) ELSE NoMatch

\* re.search(r"GeneralReport\s*\((\d+)\)", filename, re.IGNORECASE), line 485.
pattern3(filename) ==
    IF filename \in {ReportFile, DatedReportFile, OfferReportFile}
    THEN Match(<<"7">>) ELSE NoMatch

NoMetadata == [sale_number |-> None, sale_date |-> None]

\* Lines 464-475: pattern 1 and the date part that goes with it.
AfterPattern1(filename) ==
    IF pattern1(filename).matched
    THEN [sale_number |-> pattern1(filename).groups[1],
          sale_date |-> IF date_part_match(filename).matched
                        THEN parse_date(date_part_match(filename).groups[1])
                        ELSE None]
    ELSE NoMetadata

\* Mutation: pattern 2 fills in the date although pattern 1 gave the number.
AfterPattern2_date_always(filename, found) ==
    IF pattern2(filename).matched
    THEN [sale_number |-> IF Truthy(found.sale_number) THEN found.sale_number
                          ELSE pattern2(filename).groups[1],
          sale_date |-> IF Truthy(found.sale_date) THEN found.sale_date
                        ELSE parse_date(pattern2(filename).groups[2])]
    ELSE found

\* Lines 478-482: pattern 2, when no sale number was found before.
AfterPattern2(filename, found) ==
    IF pattern2(filename).matched /\ ~Truthy(found.sale_number)
    THEN [sale_number |-> pattern2(filename).groups[1],
          sale_date |-> IF Truthy(found.sale_date) THEN found.sale_date
                        ELSE parse_date(pattern2(filename).groups[2])]
    ELSE found

\* Lines 485-489: pattern 3, when no sale number was found before.
AfterPattern3(filename, found) ==
    IF pattern3(filename).matched /\ ~Truthy(found.sale_number)
    THEN [found EXCEPT !.sale_number = pattern3(filename).groups[1]]
    ELSE found

\* Lines 456-491.
extract_metadata_from_filename(filename) ==
    AfterPattern3(filename, AfterPattern2(filename, AfterPattern1(filename)))

\* ---------------------------------------------------------------------------
\* File contents: the table a reader gets out of a file, column names already
\* mapped onto canonical fields; a cell is a text, or NaN for an empty cell
\* ---------------------------------------------------------------------------
\* np.nan in a column of texts.
NaN == <<>>

Cell(lot_number, grade, price) ==
    [lot_number |-> lot_number, grade |-> grade, price |-> price]

\* readable: FALSE for a corrupt file (the reader catches the error and hands
\*   back an empty frame).
\* raises: TRUE when process_lot_details raises on the frame.
\* sale_number_internal: the most frequent cell of the 'Sale Code' column.
\* sale_date_internal: the most frequent cell of the 'Sale Date' column.
LotContents ==
    { [readable |-> TRUE, raises |-> FALSE, sale_number_internal |-> "Sale 42 - M2", sale_date_internal |-> None,
       rows |-> <<Cell(<<"L", "1">>, <<"P", "F", "1">>, <<"2", "0">>)>>],
      [readable |-> TRUE, raises |-> FALSE, sale_number_internal |-> None, sale_date_internal |-> None,
       rows |-> <<Cell(<<"L", "1">>, <<"B", "P", "1">>, <<"1", "0">>),
                  Cell(<<"L", "1">>, <<"P", "F", "1">>, NaN),
                  Cell(<<"-">>, <<"B", "P", "1">>, <<"1", "0">>),
                  Cell(<<"L", "2">>, <<"P", "F", "1">>, <<"2", "0">>)>>],
      [readable |-> TRUE, raises |-> FALSE, sale_number_internal |-> "M2", sale_date_internal |-> None,
       rows |-> <<Cell(<<" ", "n", "i", "l">>, <<"B", "P", "1">>, <<"1", "0">>)>>],
      [readable |-> TRUE, raises |-> TRUE, sale_number_internal |-> None, sale_date_internal |-> None,
       rows |-> <<Cell(<<"L", "1">>, <<"B", "P", "1">>, <<"1", "0">>)>>],
      [readable |-> FALSE, raises |-> FALSE, sale_number_internal |-> None, sale_date_internal |-> None,
       rows |-> <<>>] }

\* A grade-summary file: a table of grades, or a corrupt file.
SummaryContents ==
    { [readable |-> TRUE, raises |-> FALSE, sale_number_internal |-> None, sale_date_internal |-> None,
       rows |-> <<Cell(NaN, <<"B", "P", "1">>, NaN)>>],
      [readable |-> FALSE, raises |-> FALSE, sale_number_internal |-> None, sale_date_internal |-> None,
       rows |-> <<>>] }

Contents(filename) ==
    IF filename = SummaryFile THEN SummaryContents ELSE LotContents

\* pd.DataFrame(): the empty frame.
EmptyFrame ==
    [readable |-> FALSE, raises |-> FALSE, sale_number_internal |-> None,
     sale_date_internal |-> None, rows |-> <<>>]

\* Mutation: no frame counts as empty.
Empty_never(df) == FALSE

\* df.empty
Empty(df) == df.rows = <<>>

\* read_file: the frame read from the file; the empty frame when the reader fails.
read_file(content) ==
    IF content.readable THEN content ELSE EmptyFrame

\* re.search(r"Sale\s*(\d+)", raw_sale_code, re.IGNORECASE), line 506, on the
\* sale codes of the model: the digits after the first "Sale", None without.
SaleCodeDigits(raw_sale_code) ==
    CASE raw_sale_code = "Sale 42 - M2" -> "42"
      [] raw_sale_code = "SALE35" -> "35"
      [] raw_sale_code = "Presale 9" -> "9"
      [] raw_sale_code = "M2" -> None
      [] raw_sale_code = "Sale M2" -> None

\* Lines 493-520; a column without a non-null cell (None here) gives None.
extract_metadata_from_dataframe(df) ==
    [sale_number |-> IF df.sale_number_internal = None THEN None
                     ELSE SaleCodeDigits(df.sale_number_internal),
     sale_date |-> IF df.sale_date_internal = None THEN None
                   ELSE parse_date(df.sale_date_internal)]

\* Mutation: the pair comes from one source, the embedded data when it has a
\* sale number.
determine_final_metadata_as_a_pair(filename, df) ==
    LET fn == extract_metadata_from_filename(filename)
        emb == extract_metadata_from_dataframe(df)
    IN IF Truthy(emb.sale_number) THEN emb ELSE fn

determine_final_metadata(filename, df) ==
    LET fn == extract_metadata_from_filename(filename)
        emb == extract_metadata_from_dataframe(df)
    IN [sale_number |-> IF Truthy(emb.sale_number) THEN emb.sale_number ELSE fn.sale_number,
        sale_date |-> IF Truthy(emb.sale_date) THEN emb.sale_date ELSE fn.sale_date]

\* series.astype(str): NaN becomes the text "nan".
astype_str(cell) ==
    IF cell = NaN THEN <<"n", "a", "n">> ELSE cell

\* str.strip(): the text without the blanks around it.
Strip(text) ==
    LET marks == {i \in DOMAIN text : text[i] # " "} IN
    IF marks = {} THEN <<>>
    ELSE SubSeq(text, CHOOSE i \in marks : \A j \in marks : i <= j,
                      CHOOSE i \in marks : \A j \in marks : i >= j)

\* str.upper() on one character.
LowerCase ==
    <<"a", "b", "c", "d", "e", "f", "g", "h", "i", "j", "k", "l", "m", "n", "o", "p",
      "q", "r", "s", "t", "u", "v", "w", "x", "y", "z">>
UpperCase ==
    <<"A", "B", "C", "D", "E", "F", "G", "H", "I", "J", "K", "L", "M", "N", "O", "P",
      "Q", "R", "S", "T", "U", "V", "W", "X", "Y", "Z">>

UpperOf ==
    [c \in {LowerCase[i] : i \in DOMAIN LowerCase} |->
        UpperCase[CHOOSE i \in DOMAIN LowerCase : LowerCase[i] = c]]

UpperChar(c) == IF c \in DOMAIN UpperOf THEN UpperOf[c] ELSE c

Upper(text) == [i \in DOMAIN text |-> UpperChar(text[i])]

\* Mutation: the noise tokens are not replaced.
clean_text_keeps_noise(cell) == Upper(Strip(astype_str(cell)))

\* clean_text_columns on one cell, lines 314-316: trimmed and upper-cased, then
\* NaN for a noise token.
clean_text(cell) ==
    LET text == Upper(Strip(astype_str(cell))) IN
    IF text \in NOISE_VALUES THEN NaN ELSE text

\* ---------------------------------------------------------------------------
\* Numeric cleaning (clean_and_cast_numeric_columns, lines 169-212). A cell
\* is NaN (an empty cell) or a text, a sequence of characters; a float64 is NaN
\* or <<m, k>>, the number m * 10^k with k <= 0 and no trailing zero in the
\* fraction.
\* ---------------------------------------------------------------------------
DigitChars == {"0", "1", "2", "9"}
TextChars == DigitChars \cup {".", ",", "$", " ", "-", "x"}

float_cols == {"quantity_kgs", "price", "valuation_or_rp"}
integer_like_cols == {"package_count", "lots"}

DigitValue(c) ==
    CASE c = "0" -> 0
      [] c = "1" -> 1
      [] c = "2" -> 2
      [] c = "9" -> 9

\* The integer a string of digits denotes (0 for the empty string).
RECURSIVE DigitsValue(_)
DigitsValue(digits) ==
    IF digits = <<>> THEN 0
    ELSE 10 * DigitsValue(SubSeq(digits, 1, Len(digits) - 1))
         + DigitValue(digits[Len(digits)])

RECURSIVE Float(_, _)
Float(m, k) ==
    IF m = 0 THEN <<0, 0>>
    ELSE IF k < 0 /\ m % 10 = 0 THEN Float(m \div 10, k + 1)
    ELSE <<m, k>>

\* series.str.replace(r'[$,]', '', regex=True), line 185.
RemoveNoise(text) ==
    SelectSeq(text, LAMBDA c : c \notin {"$", ","})

\* series.str.split('.').str[0], line 189.
BeforeDecimalPoint(text) ==
    LET points == {i \in DOMAIN text : text[i] = "."} IN
    IF points = {} THEN text
    ELSE SubSeq(text, 1, (CHOOSE i \in points : \A j \in points : i <= j) - 1)

AfterDecimalPoint(text) ==
    LET points == {i \in DOMAIN text : text[i] = "."} IN
    IF points = {} THEN <<>>
    ELSE SubSeq(text, (CHOOSE i \in points : \A j \in points : i <= j) + 1, Len(text))

\* The regular expression ^\s*$ of line 192.
Blank(text) == \A i \in DOMAIN text : text[i] = " "

\* Mutation: the decimals of an integer-like column are kept.
clean_col_keeps_decimals(series, allow_decimal) ==
    LET cleaned == RemoveNoise(astype_str(series)) IN
    IF Blank(cleaned) THEN NaN ELSE cleaned

\* clean_col on one cell, lines 181-193: the cleaned text, or NaN.
clean_col(series, allow_decimal) ==
    LET cleaned == RemoveNoise(astype_str(series))
        cut == IF allow_decimal THEN cleaned ELSE BeforeDecimalPoint(cleaned)
    IN IF Blank(cut) THEN NaN ELSE cut

\* pd.to_numeric(..., errors='coerce') on one cell, lines 200 and 207: blanks
\* around the number are skipped, then an optional sign, digits with at most
\* one decimal point and at least one digit; anything else, NaN and the text
\* "nan" included, comes out as NaN.
WellFormed(body) ==
    /\ \A i \in DOMAIN body : body[i] \in DigitChars \cup {"."}
    /\ Cardinality({i \in DOMAIN body : body[i] = "."}) <= 1
    /\ \E i \in DOMAIN body : body[i] \in DigitChars

Magnitude(body) == DigitsValue(BeforeDecimalPoint(body) \o AfterDecimalPoint(body))

Number(negative, body) ==
    IF ~WellFormed(body) THEN NaN
    ELSE Float(IF negative THEN 0 - Magnitude(body) ELSE Magnitude(body),
               0 - Len(AfterDecimalPoint(body)))

Signed(stripped) ==
    IF stripped # <<>> /\ stripped[1] = "-" THEN Number(TRUE, Tail(stripped))
    ELSE Number(FALSE, stripped)

to_numeric(text) == Signed(Strip(text))

\* clean_and_cast_numeric_columns on one cell of column col, lines 195-209; a
\* column that is not a numeric column is left as it is.
clean_and_cast_numeric_columns(col, cell) ==
    IF col \in float_cols THEN to_numeric(clean_col(cell, TRUE))
    ELSE IF col \in integer_like_cols THEN to_numeric(clean_col(cell, FALSE))
    ELSE cell

\* ---------------------------------------------------------------------------
\* Header detection (find_header_row, lines 324-355). A matrix is a sequence of
\* rows, a row a sequence of cells; the pandas index of the i-th row is i - 1.
\* ---------------------------------------------------------------------------
\* Line 84, in the order of the list.
HEADER_KEYWORDS ==
    <<<<"L", "o", "t", "N", "o">>, <<"G", "a", "r", "d", "e", "n">>,
      <<"G", "r", "a", "d", "e">>, <<"I", "n", "v", "o", "i", "c", "e">>,
      <<"P", "k", "g", "s">>, <<"K", "i", "l", "o", "s">>, <<"R", "P">>,
      <<"V", "a", "l", "u", "a", "t", "i", "o", "n">>, <<"P", "r", "i", "c", "e">>,
      <<"B", "u", "y", "e", "r">>, <<"M", "a", "r", "k">>, <<"L", "o", "t">>,
      <<"B", "r", "o", "k", "e", "r">>, <<"W", "e", "i", "g", "h", "t">>,
      <<"B", "a", "g", "s">>>>

\* pd.read_csv(..., nrows=20), line 370.
nrows == 20
\* find_header_row(df, keywords, max_rows=15), line 324.
max_rows == 15

Range(seq) == {seq[i] : i \in DOMAIN seq}

\* df.head(n)
Head_(df, n) == SubSeq(df, 1, IF Len(df) < n THEN Len(df) ELSE n)

Min(a, b) == IF a < b THEN a ELSE b

\* Line 340: the cells of the row that are not NaN, trimmed and upper-cased.
row_values(row) == {Upper(Strip(v)) : v \in {c \in Range(row) : c # NaN}}

\* Lines 332-347: the state of the loop after the rows of search_df up to row i.
RECURSIVE Scan(_, _, _)
Scan(search_df, normalized_keywords, i) ==
    IF i = 0 THEN [best_match_count |-> 0, header_row_index |-> 0]
    ELSE LET before == Scan(search_df, normalized_keywords, i - 1)
             match_count == Cardinality(normalized_keywords \cap row_values(search_df[i]))
         IN IF match_count > before.best_match_count
            THEN [best_match_count |-> match_count, header_row_index |-> i - 1]
            ELSE before

\* Mutation: the best-scoring row is returned whatever its score.
find_header_row_no_threshold(df, keywords, rows_to_scan) ==
    LET normalized_keywords == {Upper(Strip(k)) : k \in Range(keywords)}
        search_df == Head_(df, rows_to_scan)
    IN Scan(search_df, normalized_keywords, Len(search_df)).header_row_index

find_header_row(df, keywords, rows_to_scan) ==
    LET normalized_keywords == {Upper(Strip(k)) : k \in Range(keywords)}
        search_df == Head_(df, rows_to_scan)
        scanned == Scan(search_df, normalized_keywords, Len(search_df))
    IN IF scanned.best_match_count < Min(4, Len(keywords)) THEN 0
       ELSE scanned.header_row_index

\* read_csv_file for a file that is not a GeneralReport, lines 368-377: the
\* header row is looked for in the first nrows rows; the frame has the cells of
\* that row as column names and the rows below it as data.
read_csv_file(matrix, keywords) ==
    IF matrix = <<>> THEN [header_row |-> 0, columns |-> <<>>, data |-> <<>>]
    ELSE LET temp_df == Head_(matrix, nrows)
             header_row == find_header_row(temp_df, keywords, max_rows)
         IN [header_row |-> header_row,
             columns |-> matrix[header_row + 1],
             data |-> SubSeq(matrix, header_row + 2, Len(matrix))]

\* ---------------------------------------------------------------------------
\* Column mapping (map_columns, lines 238-267). A frame is a sequence of
\* columns, each a label and its values; column labels are texts, and the
\* values of a column are NaN (a column of nulls) or <<i>>, the values of the
\* i-th column of the source.
\* ---------------------------------------------------------------------------
\* Lines 61-75, in the order of the dictionary.
COLUMN_MAP_LOT_DETAILS ==
    << [name |-> <<"b", "r", "o", "k", "e", "r">>,
       aliases |-> <<<<"B", "r", "o", "k", "e", "r">>>>],
       [name |-> <<"m", "a", "r", "k">>,
       aliases |-> <<<<"S", "e", "l", "l", "i", "n", "g", " ", "M", "a", "r", "k">>,
                    <<"G", "a", "r", "d", "e", "n">>, <<"M", "a", "r", "k">>,
                    <<"E", "s", "t", "a", "t", "e">>,
                    <<"F", "a", "c", "t", "o", "r", "y">>,
                    <<"S", "e", "l", "l", "i", "n", "g", " ", "M", "a", "r", "k", " ", "-", " ", "M", "F", " ", "M", "a", "r", "k">>>>],
       [name |-> <<"g", "r", "a", "d", "e">>,
       aliases |-> <<<<"G", "r", "a", "d", "e">>>>],
       [name |-> <<"l", "o", "t", "_", "n", "u", "m", "b", "e", "r">>,
       aliases |-> <<<<"L", "o", "t", "N", "o">>, <<"L", "o", "t", " ", "N", "o">>,
                    <<"L", "o", "t">>, <<"L", "o", "t", ".", "N", "o">>>>],
       [name |-> <<"i", "n", "v", "o", "i", "c", "e", "_", "n", "u", "m", "b", "e", "r">>,
       aliases |-> <<<<"I", "n", "v", "o", "i", "c", "e">>,
                    <<"I", "n", "v", ".", "N", "o">>,
                    <<"I", "n", "v", "o", "i", "c", "e", " ", "N", "o">>>>],
       [name |-> <<"q", "u", "a", "n", "t", "i", "t", "y", "_", "k", "g", "s">>,
       aliases |-> <<<<"N", "e", "t", " ", "W", "e", "i", "g", "h", "t">>,
                    <<"K", "i", "l", "o", "s">>, <<"K", "g", "s">>,
                    <<"Q", "u", "a", "n", "t", "i", "t", "y", " ", "(", "K", "g", ")">>,
                    <<"T", "o", "t", "a", "l", " ", "W", "e", "i", "g", "h", "t">>,
                    <<"N", "e", "t", " ", "K", "g", "s">>,
                    <<"W", "e", "i", "g", "h", "t">>>>],
       [name |-> <<"p", "a", "c", "k", "a", "g", "e", "_", "c", "o", "u", "n", "t">>,
       aliases |-> <<<<"B", "a", "g", "s">>, <<"P", "k", "g", "s">>,
                    <<"P", "a", "c", "k", "a", "g", "e", "s">>,
                    <<"P", "a", "c", "k", "a", "g", "e">>, <<"P", "k", "s">>,
                    <<"N", "o", " ", "o", "f", " ", "P", "k", "g", "s">>,
                    <<"U", "n", "i", "t", "s">>, <<"C", "o", "u", "n", "t">>>>],
       [name |-> <<"p", "r", "i", "c", "e">>,
       aliases |-> <<<<"P", "u", "r", "c", "h", "a", "s", "e", "d", " ", "P", "r", "i", "c", "e">>,
                    <<"F", "i", "n", "a", "l", " ", "P", "r", "i", "c", "e">>,
                    <<"P", "r", "i", "c", "e">>,
                    <<"P", "r", "i", "c", "e", " ", "(", "U", "S", "D", ")">>,
                    <<"P", "r", "i", "c", "e", " ", "(", "U", "S", "c", ")">>>>],
       [name |-> <<"v", "a", "l", "u", "a", "t", "i", "o", "n", "_", "o", "r", "_", "r", "p">>,
       aliases |-> <<<<"V", "a", "l", "u", "a", "t", "i", "o", "n">>,
                    <<"A", "s", "k", "i", "n", "g", " ", "P", "r", "i", "c", "e">>,
                    <<"R", "P">>>>],
       [name |-> <<"b", "u", "y", "e", "r">>,
       aliases |-> <<<<"B", "u", "y", "e", "r">>,
                    <<"B", "u", "y", "e", "r", " ", "N", "a", "m", "e">>,
                    <<"F", "i", "n", "a", "l", " ", "B", "u", "y", "e", "r">>>>],
       [name |-> <<"s", "a", "l", "e", "_", "d", "a", "t", "e", "_", "i", "n", "t", "e", "r", "n", "a", "l">>,
       aliases |-> <<<<"S", "e", "l", "l", "i", "n", "g", " ", "E", "n", "d", " ", "T", "i", "m", "e">>,
                    <<"S", "a", "l", "e", " ", "D", "a", "t", "e">>>>],
       [name |-> <<"s", "a", "l", "e", "_", "n", "u", "m", "b", "e", "r", "_", "i", "n", "t", "e", "r", "n", "a", "l">>,
       aliases |-> <<<<"S", "a", "l", "e", " ", "C", "o", "d", "e">>,
                    <<"A", "u", "c", "t", "i", "o", "n">>>>] >>

Column(label, values) == [label |-> label, values |-> values]

Labels(df) == {df[i].label : i \in DOMAIN df}

\* Lines 247-250: the first standardized name of the map one of whose aliases,
\* trimmed and upper-cased, is the normalized column name; 0 when there is none.
MatchingName(normalized_col, column_map) ==
    LET matching == {k \in DOMAIN column_map :
                       \E a \in DOMAIN column_map[k].aliases :
                          Upper(Strip(column_map[k].aliases[a])) = normalized_col}
    IN IF matching = {} THEN 0
       ELSE CHOOSE k \in matching : \A j \in matching : k <= j

\* Lines 240-254: rename_dict after the first i columns of df.
RECURSIVE RenameDict(_, _, _)
RenameDict(df, column_map, i) ==
    IF i = 0 THEN <<>>
    ELSE LET rename_dict == RenameDict(df, column_map, i - 1)
             col == df[i].label
             k == MatchingName(Upper(Strip(col)), column_map)
         IN IF k = 0 THEN rename_dict
            ELSE IF \E c \in DOMAIN rename_dict : rename_dict[c] = column_map[k].name
            THEN rename_dict
            ELSE [c \in DOMAIN rename_dict \cup {col} |->
                     IF c = col THEN column_map[k].name ELSE rename_dict[c]]

\* Line 257: df.rename(columns=rename_dict).
Rename(df, rename_dict) ==
    [i \in DOMAIN df |->
        Column(IF df[i].label \in DOMAIN rename_dict THEN rename_dict[df[i].label]
               ELSE df[i].label,
               df[i].values)]

\* Lines 260-262: a column of NaN for every standardized name that is not a
\* label of the frame.
RECURSIVE WithMissing(_, _, _)
WithMissing(df_mapped, column_map, k) ==
    IF k = 0 THEN df_mapped
    ELSE LET before == WithMissing(df_mapped, column_map, k - 1) IN
         IF column_map[k].name \in Labels(before) THEN before
         ELSE Append(before, Column(column_map[k].name, NaN))

\* Line 265: df_mapped[list(column_map.keys())], every column that bears one of
\* the first k standardized names, in the order of the names.
RECURSIVE SelectColumns(_, _, _)
SelectColumns(df_mapped, column_map, k) ==
    IF k = 0 THEN <<>>
    ELSE SelectColumns(df_mapped, column_map, k - 1)
         \o SelectSeq(df_mapped, LAMBDA column : column.label = column_map[k].name)

map_columns(df, column_map) ==
    LET rename_dict == RenameDict(df, column_map, Len(df))
        df_mapped == WithMissing(Rename(df, rename_dict), column_map, Len(column_map))
    IN SelectColumns(df_mapped, column_map, Len(column_map))

\* process_lot_details: stamp the file's metadata on every row, drop the rows
\* without a lot_number, then split: offers are all rows, sales the priced ones.
\* Mutation: only the first row of the file gets the sale number.
StampedRows_first_row_only(rows, metadata, sale) ==
    [i \in 1..Len(rows) |->
        [source_location |-> SOURCE_LOCATION,
         sale_date |-> sale.sale_date,
         sale_number |-> IF i = 1 THEN sale.sale_number ELSE None,
         grade |-> clean_text(rows[i].grade),
         lot_number |-> clean_text(rows[i].lot_number),
         price |-> clean_and_cast_numeric_columns("price", rows[i].price),
         source_file_identifier |-> metadata.file_identifier,
         processed_timestamp |-> metadata.timestamp]]

StampedRows(rows, metadata, sale) ==
    [i \in 1..Len(rows) |->
        [source_location |-> SOURCE_LOCATION,
         sale_date |-> sale.sale_date,
         sale_number |-> sale.sale_number,
         grade |-> clean_text(rows[i].grade),
         lot_number |-> clean_text(rows[i].lot_number),
         price |-> clean_and_cast_numeric_columns("price", rows[i].price),
         source_file_identifier |-> metadata.file_identifier,
         processed_timestamp |-> metadata.timestamp]]

OfferColumns(r) ==
    [source_location |-> r.source_location, sale_date |-> r.sale_date,
     sale_number |-> r.sale_number, grade |-> r.grade, lot_number |-> r.lot_number,
     source_file_identifier |-> r.source_file_identifier,
     processed_timestamp |-> r.processed_timestamp]

SaleColumns(r) == r

\* Line 568: not every essential column of the row is null (mark and
\* quantity_kgs are not columns of the model's frames).
HasEssential(r) == r.lot_number # NaN \/ r.grade # NaN

\* Line 570.
HasLotNumber(r) == r.lot_number # NaN

\* Mutation: every row is a sale.
HasPrice_always(r) == TRUE

\* Line 579.
HasPrice(r) == r.price # NaN

MapSeq(s, Op(_)) == [i \in 1..Len(s) |-> Op(s[i])]

\* Mutation: a file without a sale number gives no rows.
process_lot_details_needs_sale_number(df, metadata) ==
    LET sale == determine_final_metadata(metadata.filename, df)
        df_final == SelectSeq(SelectSeq(StampedRows(df.rows, metadata, sale), HasEssential),
                              HasLotNumber)
    IN IF sale.sale_number = None THEN [offers_df |-> <<>>, sales_df |-> <<>>]
       ELSE [offers_df |-> MapSeq(df_final, OfferColumns),
             sales_df |-> MapSeq(SelectSeq(df_final, HasPrice), SaleColumns)]

\* Mutation: the offers are the rows without a price.
process_lot_details_offers_unsold(df, metadata) ==
    LET sale == determine_final_metadata(metadata.filename, df)
        df_final == SelectSeq(SelectSeq(StampedRows(df.rows, metadata, sale), HasEssential),
                              HasLotNumber)
    IN [offers_df |-> MapSeq(SelectSeq(df_final, LAMBDA r : ~HasPrice(r)), OfferColumns),
        sales_df |-> MapSeq(SelectSeq(df_final, HasPrice), SaleColumns)]

process_lot_details(df, metadata) ==
    LET sale == determine_final_metadata(metadata.filename, df)
        df_final == SelectSeq(SelectSeq(StampedRows(df.rows, metadata, sale), HasEssential),
                              HasLotNumber)
    IN [offers_df |-> MapSeq(df_final, OfferColumns),
        sales_df |-> MapSeq(SelectSeq(df_final, HasPrice), SaleColumns)]

\* ---------------------------------------------------------------------------
\* The store: tables are sequences of rows in insertion (rowid) order
\* ---------------------------------------------------------------------------
\* UNIQUE(source_location, sale_number, lot_number) as SQLite enforces it: two
\* rows collide when the three columns are equal and none of them is NULL
\* (NULLs are distinct from each other in a UNIQUE constraint).
UniqueConflict(r, s) ==
    /\ r.source_location # None /\ r.sale_number # None /\ r.lot_number # NaN
    /\ r.source_location = s.source_location
    /\ r.sale_number = s.sale_number
    /\ r.lot_number = s.lot_number

\* sqlite3.IntegrityError on INSERT of row: a UNIQUE conflict with a stored row,
\* or a NULL in a NOT NULL column.
IntegrityError(table, row) ==
    \/ row.lot_number = NaN
    \/ row.source_location = None
    \/ \E i \in 1..Len(table) : UniqueConflict(row, table[i])

\* DataFrame.to_sql(table_name, conn, if_exists='append'): the rows are inserted
\* one after the other inside one transaction, which is rolled back (and the
\* error raised) at the first row that violates a constraint.
RECURSIVE Executemany(_, _)
Executemany(table, rows) ==
    IF rows = <<>> THEN [ok |-> TRUE, table |-> table]
    ELSE IF IntegrityError(table, Head(rows)) THEN [ok |-> FALSE, table |-> table]
    ELSE Executemany(Append(table, Head(rows)), Tail(rows))

to_sql(table, rows) ==
    LET r == Executemany(table, rows)
    IN IF r.ok THEN r ELSE [ok |-> FALSE, table |-> table]

\* Mutation: the fallback stops at the first duplicate instead of skipping it.
RECURSIVE RowByRow_break(_, _, _)
RowByRow_break(table, rows, inserted_count) ==
    IF rows = <<>> THEN [table |-> table, inserted |-> inserted_count]
    ELSE LET one == to_sql(table, <<Head(rows)>>)
         IN IF one.ok
            THEN RowByRow_break(one.table, Tail(rows), inserted_count + 1)
            ELSE [table |-> table, inserted |-> inserted_count]

\* Mutation: the fallback counts every row it tried, inserted or not.
RECURSIVE RowByRow_count_all(_, _, _)
RowByRow_count_all(table, rows, inserted_count) ==
    IF rows = <<>> THEN [table |-> table, inserted |-> inserted_count]
    ELSE LET one == to_sql(table, <<Head(rows)>>)
         IN RowByRow_count_all(one.table, Tail(rows), inserted_count + 1)

\* The row-by-row fallback of insert_data (lines 631-643).
RECURSIVE RowByRow(_, _, _)
RowByRow(table, rows, inserted_count) ==
    IF rows = <<>> THEN [table |-> table, inserted |-> inserted_count]
    ELSE LET one == to_sql(table, <<Head(rows)>>)
         IN IF one.ok
            THEN RowByRow(one.table, Tail(rows), inserted_count + 1)
            ELSE RowByRow(table, Tail(rows), inserted_count)

insert_data(table, df) ==
    IF df = <<>> THEN [table |-> table, inserted |-> 0]
    ELSE LET records_before == Len(table)
             bulk == to_sql(table, df)
             records_after == Len(bulk.table)
         IN IF bulk.ok
            THEN [table |-> bulk.table, inserted |-> records_after - records_before]
            ELSE RowByRow(table, df, 0)

\* processing_log is the set of its rows; UNIQUE(file_identifier, data_type).
LogKeyed(log, file_identifier, data_type) ==
    {e \in log : e.file_identifier = file_identifier /\ e.data_type = data_type}

\* Mutation: plain INSERT; on a key that is logged already the statement fails
\* and the error is swallowed, so the old entry stays.
log_processing_status_insert_only(log, file_identifier, data_type, records_inserted, status, timestamp) ==
    IF LogKeyed(log, file_identifier, data_type) # {} THEN log
    ELSE log \cup {[file_identifier |-> file_identifier, processed_timestamp |-> timestamp,
                    records_inserted |-> records_inserted, data_type |-> data_type,
                    status |-> status]}

\* INSERT OR REPLACE INTO processing_log: the row with the same key is deleted.
log_processing_status(log, file_identifier, data_type, records_inserted, status, timestamp) ==
    (log \ LogKeyed(log, file_identifier, data_type))
        \cup {[file_identifier |-> file_identifier, processed_timestamp |-> timestamp,
               records_inserted |-> records_inserted, data_type |-> data_type,
               status |-> status]}

\* Mutation: the status is compared in the wrong letter case, so nothing is skipped.
check_already_processed_wrong_case(log, file_identifier, data_type) ==
    \E e \in LogKeyed(log, file_identifier, data_type) : e.status = "Success"

\* Mutation: any ledger entry, whatever its status, makes the file skipped.
check_already_processed_any_status(log, file_identifier, data_type) ==
    LogKeyed(log, file_identifier, data_type) # {}

check_already_processed(log, file_identifier, data_type) ==
    \E e \in LogKeyed(log, file_identifier, data_type) : e.status = "SUCCESS"

\* ---------------------------------------------------------------------------
\* process_structured_data (lines 653-719) on a store
\*   [auction_offers, auction_sales, processing_log]
\* now is the reading of datetime.now() at line 673; the ledger is stamped by
\* the later reading of line 216.
\* ---------------------------------------------------------------------------
\* Mutation: the identifier is the file name alone.
FileIdentifier_name_only(filename, file_mod_time) == <<filename, 0>>

FileIdentifier(filename, file_mod_time) == <<filename, file_mod_time>>

Attempt(store, outcome, read, inserted_offers, inserted_sales) ==
    [store |-> store, outcome |-> outcome, read |-> read,
     inserted_offers |-> inserted_offers, inserted_sales |-> inserted_sales]

Logged(store, file_identifier, data_type, records_inserted, status, timestamp) ==
    [store EXCEPT !.processing_log =
        log_processing_status(@, file_identifier, data_type, records_inserted,
                              status, timestamp)]

process_structured_data(store, filename, stat, content, data_type, now) ==
    LET file_identifier == FileIdentifier(filename, stat.st_mtime)
        metadata == [file_identifier |-> file_identifier, filename |-> filename,
                     timestamp |-> now]
        df == read_file(content)
    IN
    IF ~stat.exists
    THEN Attempt(store, "access_error", FALSE, 0, 0)
    ELSE IF check_already_processed(store.processing_log, file_identifier, data_type)
    THEN Attempt(store, "skipped", FALSE, 0, 0)
    ELSE IF data_type \notin {DATA_TYPE_OFFER, DATA_TYPE_SALE, DATA_TYPE_SUMMARY}
    THEN Attempt(store, "no_keywords", FALSE, 0, 0)
    ELSE IF Empty(df)
    THEN Attempt(Logged(store, file_identifier, data_type, 0, "FAILURE", now + 1),
                 "FAILURE", TRUE, 0, 0)
    ELSE IF data_type \in {DATA_TYPE_OFFER, DATA_TYPE_SALE}
    THEN IF df.raises
         THEN Attempt(Logged(store, file_identifier, data_type, 0, "FAILURE", now + 1),
                      "FAILURE", TRUE, 0, 0)
         ELSE LET lots == process_lot_details(df, metadata)
                  offers == insert_data(store.auction_offers, lots.offers_df)
                  sales == insert_data(store.auction_sales, lots.sales_df)
                  total_inserted == offers.inserted + sales.inserted
                  status == IF total_inserted > 0 THEN "SUCCESS" ELSE "NO_NEW_DATA"
                  stored == [store EXCEPT !.auction_offers = offers.table,
                                          !.auction_sales = sales.table]
              IN Attempt(Logged(stored, file_identifier, data_type, total_inserted,
                                status, now + 1),
                         status, TRUE, offers.inserted, sales.inserted)
    ELSE Attempt(Logged(store, file_identifier, data_type, 0, "NO_NEW_DATA", now + 1),
                 "NO_NEW_DATA", TRUE, 0, 0)

\* ---------------------------------------------------------------------------
\* State
\* ---------------------------------------------------------------------------
VARIABLES
    auction_offers,   \* table auction_offers
    auction_sales,    \* table auction_sales
    processing_log,   \* table processing_log
    mtime,            \* file name -> modification time
    content,          \* file name -> what the file holds
    clock,            \* datetime.now()
    running,          \* TRUE while a run of main() is in its loop
    pending,          \* files of the run's directory listing not yet visited
    last,             \* what the last step did
    replay,           \* the same files processed in every order from one store
    call              \* a function of the pipeline called on its own: arguments and result

pipeline == <<auction_offers, auction_sales, processing_log, mtime, content, clock,
              running, pending, last, replay>>

vars == <<auction_offers, auction_sales, processing_log, mtime, content, clock,
          running, pending, last, replay, call>>

\* How many times files were rewritten: every rewrite adds one to an mtime.
RECURSIVE Sum(_, _)
Sum(f, S) ==
    IF S = {} THEN 0
    ELSE LET x == CHOOSE x \in S : TRUE IN f[x] + Sum(f, S \ {x})

changes == Sum(mtime, Files) - Cardinality(Files)

\* os.path.getmtime: raises OSError (exists = FALSE) when the file cannot be
\* accessed at the moment of the call.
getmtime(filename, accessible) ==
    IF accessible
    THEN [exists |-> TRUE, st_mtime |-> mtime[filename]]
    ELSE [exists |-> FALSE, st_mtime |-> 0]

Store ==
    [auction_offers |-> auction_offers, auction_sales |-> auction_sales,
     processing_log |-> processing_log]

NoStep ==
    [op |-> "none", filename |-> None, file_identifier |-> <<>>, data_type |-> None,
     outcome |-> None, read |-> FALSE, inserted_offers |-> 0, inserted_sales |-> 0]

EmptyStore ==
    [auction_offers |-> <<>>, auction_sales |-> <<>>, processing_log |-> {}]

\* The orders os.listdir can give the files in.
Listings ==
    {o \in [1..Cardinality(Files) -> Files] : \A f \in Files : \E i \in DOMAIN o : o[i] = f}

\* replay.stores[o] is the store of the pass that takes the files in order o;
\* replay.step is the number of files every pass has visited.
NoReplay ==
    [on |-> FALSE, step |-> 0, stores |-> [o \in Listings |-> EmptyStore]]

\* No function is being called on its own.
NoCall ==
    [fn |-> "none", args |-> <<>>, returned |-> FALSE, value |-> <<>>]

Init ==
    /\ call = NoCall
    /\ auction_offers = <<>>
    /\ auction_sales = <<>>
    /\ processing_log = {}
    /\ mtime = [f \in Files |-> 1]
    /\ content \in [Files -> LotContents \cup SummaryContents]
    /\ \A f \in Files : content[f] \in Contents(f)
    /\ clock = 0
    /\ running = FALSE
    /\ pending = {}
    /\ last = NoStep
    /\ replay = NoReplay

\* main(), lines 768-778: a run starts by listing the directory.
StartRun ==
    /\ ~running
    /\ running' = TRUE
    /\ pending' = Files
    /\ last' = [NoStep EXCEPT !.op = "start"]
    /\ UNCHANGED <<auction_offers, auction_sales, processing_log, mtime, content,
                   clock, replay, call>>

\* main(), lines 778-799: the loop body for the next file of the listing
\* (os.listdir gives the files in no particular order). accessible is FALSE
\* when the file's stats cannot be read at that moment.
Visit(filename, accessible) ==
    /\ running
    /\ filename \in pending
    /\ ~IsHidden(filename)
    /\ LET type == identify_file_type(filename)
           a == process_structured_data(Store, filename, getmtime(filename, accessible),
                                        content[filename], type.data_type, clock)
       IN /\ type.data_type # None
          /\ type.structure_type = "structured"
          /\ auction_offers' = a.store.auction_offers
          /\ auction_sales' = a.store.auction_sales
          /\ processing_log' = a.store.processing_log
          /\ clock' = IF a.read THEN clock + 2 ELSE clock
          /\ last' = [op |-> "process", filename |-> filename,
                      file_identifier |-> FileIdentifier(filename, getmtime(filename, accessible).st_mtime),
                      data_type |-> type.data_type, outcome |-> a.outcome,
                      read |-> a.read, inserted_offers |-> a.inserted_offers,
                      inserted_sales |-> a.inserted_sales]
    /\ pending' = pending \ {filename}
    /\ UNCHANGED <<mtime, content, running, replay, call>>

\* Mutation: an attempt that ends in FAILURE ends the loop over the listing.
VisitFile_failure_ends_loop(filename, accessible) ==
    /\ running
    /\ filename \in pending
    /\ ~IsHidden(filename)
    /\ clock < 2 * MaxAttempts
    /\ LET type == identify_file_type(filename)
           a == process_structured_data(Store, filename, getmtime(filename, accessible),
                                        content[filename], type.data_type, clock)
       IN /\ type.data_type # None
          /\ type.structure_type = "structured"
          /\ auction_offers' = a.store.auction_offers
          /\ auction_sales' = a.store.auction_sales
          /\ processing_log' = a.store.processing_log
          /\ clock' = IF a.read THEN clock + 2 ELSE clock
          /\ last' = [op |-> "process", filename |-> filename,
                      file_identifier |-> FileIdentifier(filename, getmtime(filename, accessible).st_mtime),
                      data_type |-> type.data_type, outcome |-> a.outcome,
                      read |-> a.read, inserted_offers |-> a.inserted_offers,
                      inserted_sales |-> a.inserted_sales]
    /\ pending' = IF last'.outcome = "FAILURE" THEN {} ELSE pending \ {filename}
    /\ running' = (last'.outcome # "FAILURE")
    /\ UNCHANGED <<mtime, content, replay, call>>

VisitFile(filename, accessible) ==
    /\ clock < 2 * MaxAttempts
    /\ Visit(filename, accessible)

\* main(), lines 801-809: the listing is exhausted, the run ends.
FinishRun ==
    /\ running
    /\ pending = {}
    /\ running' = FALSE
    /\ pending' = {}
    /\ last' = [NoStep EXCEPT !.op = "finish"]
    /\ UNCHANGED <<auction_offers, auction_sales, processing_log, mtime, content,
                   clock, replay, call>>

\* Between two runs a file is rewritten with the same content: only its
\* modification time changes.
TouchFile(filename) ==
    /\ ~running
    /\ changes < MaxChanges
    /\ mtime' = [mtime EXCEPT ![filename] = @ + 1]
    /\ last' = [NoStep EXCEPT !.op = "touch", !.filename = filename]
    /\ UNCHANGED <<auction_offers, auction_sales, processing_log, content, clock,
                   running, pending, replay, call>>

\* Between two runs a file is edited: new content, new modification time.
EditFile(filename) ==
    /\ ~running
    /\ changes < MaxChanges
    /\ \E c \in Contents(filename) \ {content[filename]} :
          content' = [content EXCEPT ![filename] = c]
    /\ mtime' = [mtime EXCEPT ![filename] = @ + 1]
    /\ last' = [NoStep EXCEPT !.op = "edit", !.filename = filename]
    /\ UNCHANGED <<auction_offers, auction_sales, processing_log, clock, running,
                   pending, replay, call>>

Next ==
    \/ StartRun
    \/ \E f \in Files, accessible \in BOOLEAN : VisitFile(f, accessible)
    \/ FinishRun
    \/ \E f \in Files : TouchFile(f)
    \/ \E f \in Files : EditFile(f)

Spec == Init /\ [][Next]_vars

\* ---------------------------------------------------------------------------
\* Order of processing: from a store the pipeline has reached, the files of the
\* directory are processed once in every listing order, each pass on its own
\* copy of the store
\* ---------------------------------------------------------------------------
\* Before the passes start, the store is built by ordinary pipeline steps.
SeedStartRun == ~replay.on /\ StartRun
SeedVisitFile(f, accessible) ==
    ~replay.on /\ clock < 2 * MaxSeedAttempts /\ VisitFile(f, accessible)
SeedFinishRun == ~replay.on /\ FinishRun
SeedTouchFile(f) == ~replay.on /\ TouchFile(f)
SeedEditFile(f) == ~replay.on /\ EditFile(f)

Fork ==
    /\ ~replay.on
    /\ ~running
    /\ replay' = [on |-> TRUE, step |-> 0, stores |-> [o \in Listings |-> Store]]
    /\ UNCHANGED <<auction_offers, auction_sales, processing_log, mtime, content, clock,
                   running, pending, last, call>>

\* One pass of the loop of main() over a file, on a store.
LoopBody(store, filename, now) ==
    process_structured_data(store, filename, getmtime(filename, TRUE), content[filename],
                            identify_file_type(filename).data_type, now).store

\* Every pass visits its next file.
ReplayStep ==
    /\ replay.on
    /\ replay.step < Cardinality(Files)
    /\ replay' = [replay EXCEPT
                    !.step = @ + 1,
                    !.stores = [o \in Listings |->
                                  LoopBody(replay.stores[o], o[replay.step + 1],
                                           clock + 2 * replay.step)]]
    /\ UNCHANGED <<auction_offers, auction_sales, processing_log, mtime, content, clock,
                   running, pending, last, call>>

NextOrder ==
    \/ SeedStartRun
    \/ \E f \in Files, accessible \in BOOLEAN : SeedVisitFile(f, accessible)
    \/ SeedFinishRun
    \/ \E f \in Files : SeedTouchFile(f)
    \/ \E f \in Files : SeedEditFile(f)
    \/ Fork
    \/ ReplayStep

SpecOrder == Init /\ [][NextOrder]_vars

\* ---------------------------------------------------------------------------
\* One run of main() on a directory that also holds a hidden file, a commentary
\* and a file of no known kind
\* ---------------------------------------------------------------------------
\* main(), line 778: the run, the first one, lists the directory.
ListDirectory ==
    /\ ~running
    /\ last.op = "none"
    /\ running' = TRUE
    /\ pending' = Listing
    /\ last' = [NoStep EXCEPT !.op = "start"]
    /\ UNCHANGED <<auction_offers, auction_sales, processing_log, mtime, content,
                   clock, replay, call>>

\* main(), lines 785-799: the loop body for a hidden or temporary file
\* (continue), an unstructured file (pass) and an unrecognized file (logged).
SkipFile(filename) ==
    /\ running
    /\ filename \in pending
    /\ \/ IsHidden(filename)
       \/ identify_file_type(filename).data_type = None
       \/ identify_file_type(filename).structure_type # "structured"
    /\ pending' = pending \ {filename}
    /\ last' = [NoStep EXCEPT !.op = "pass", !.filename = filename]
    /\ UNCHANGED <<auction_offers, auction_sales, processing_log, mtime, content,
                   clock, running, replay, call>>

NextRun ==
    \/ ListDirectory
    \/ \E f \in Listing, accessible \in BOOLEAN : VisitFile(f, accessible)
    \/ \E f \in Listing : SkipFile(f)
    \/ FinishRun

SpecRun == Init /\ [][NextRun]_vars

\* ---------------------------------------------------------------------------
\* Termination of the process during a run, and the runs that follow; every
\* file is accessible
\* ---------------------------------------------------------------------------
\* The directory does not change between the runs, and os.listdir gives its
\* files in the same order in each of them (line 778).
ListedOrder ==
    <<OfferFile, ResultFile, SummaryFile>>

\* The file the loop of line 778 takes next.
NextListed(filename) ==
    \E i \in DOMAIN ListedOrder :
       /\ ListedOrder[i] = filename
       /\ \A j \in 1..(i - 1) : ListedOrder[j] \notin pending

\* process_structured_data gets as far as its insert_data calls (lines 665-697).
ReachesInsert(store, filename) ==
    /\ identify_file_type(filename).data_type \in {DATA_TYPE_OFFER, DATA_TYPE_SALE}
    /\ ~check_already_processed(store.processing_log, FileIdentifier(filename, mtime[filename]),
                                identify_file_type(filename).data_type)
    /\ ~Empty(read_file(content[filename]))
    /\ ~read_file(content[filename]).raises

\* The store when the process ends inside process_structured_data after the
\* insert into auction_offers (line 698), or after the insert into
\* auction_sales as well (line 703), and before log_processing_status.
Interrupted(store, filename, now, after_sales) ==
    LET lots == process_lot_details(read_file(content[filename]),
                                    [file_identifier |-> FileIdentifier(filename, mtime[filename]),
                                     filename |-> filename, timestamp |-> now])
    IN [store EXCEPT
          !.auction_offers = insert_data(@, lots.offers_df).table,
          !.auction_sales = IF after_sales THEN insert_data(@, lots.sales_df).table ELSE @]

\* The process ends between two files, or in a file before anything of it is
\* stored.
Terminate ==
    /\ running
    /\ running' = FALSE
    /\ pending' = {}
    /\ last' = [NoStep EXCEPT !.op = "terminate"]
    /\ UNCHANGED <<auction_offers, auction_sales, processing_log, mtime, content,
                   clock, replay, call>>

\* The process ends between a file's row insertion and its ledger update.
TerminateInFile(filename, after_sales) ==
    /\ running
    /\ filename \in pending
    /\ NextListed(filename)
    /\ clock < 2 * MaxCrashAttempts
    /\ ReachesInsert(Store, filename)
    /\ auction_offers' = Interrupted(Store, filename, clock, after_sales).auction_offers
    /\ auction_sales' = Interrupted(Store, filename, clock, after_sales).auction_sales
    /\ clock' = clock + 2
    /\ running' = FALSE
    /\ pending' = {}
    /\ last' = [NoStep EXCEPT !.op = "terminate", !.filename = filename, !.read = TRUE,
                              !.file_identifier = FileIdentifier(filename, mtime[filename]),
                              !.data_type = identify_file_type(filename).data_type]
    /\ UNCHANGED <<processing_log, mtime, content, replay, call>>

\* main(), lines 778-799: the loop body for the next file of the listing.
ResumeVisitFile(filename) ==
    /\ clock < 2 * MaxCrashAttempts
    /\ NextListed(filename)
    /\ Visit(filename, TRUE)

NextCrash ==
    \/ StartRun
    \/ \E f \in Files : ResumeVisitFile(f)
    \/ FinishRun
    \/ Terminate
    \/ \E f \in Files, after_sales \in BOOLEAN : TerminateInFile(f, after_sales)

SpecCrash == Init /\ [][NextCrash]_vars

\* ---------------------------------------------------------------------------
\* Functions of the pipeline called on their own, on every argument of a
\* bounded set; the directory is empty of readable files and the pipeline idle
\* ---------------------------------------------------------------------------
Idle ==
    /\ auction_offers = <<>>
    /\ auction_sales = <<>>
    /\ processing_log = {}
    /\ mtime = [f \in Files |-> 1]
    /\ content = [f \in Files |-> EmptyFrame]
    /\ clock = 0
    /\ running = FALSE
    /\ pending = {}
    /\ last = NoStep
    /\ replay = NoReplay

Calling(fn, args) ==
    [fn |-> fn, args |-> args, returned |-> FALSE, value |-> <<>>]

Return(value) ==
    /\ ~call.returned
    /\ call' = [call EXCEPT !.returned = TRUE, !.value = value]
    /\ UNCHANGED pipeline

\* The cells of at most MaxTextLen characters (the empty cell is NaN).
Texts == UNION {[1..n -> TextChars] : n \in 0..MaxTextLen}

InitNumeric ==
    /\ Idle
    /\ \E col \in {"price", "package_count"}, text \in Texts :
          call = Calling("clean_and_cast_numeric_columns", [col |-> col, text |-> text])

CleanAndCastNumericColumns ==
    /\ call.fn = "clean_and_cast_numeric_columns"
    /\ Return(clean_and_cast_numeric_columns(call.args.col, call.args.text))

NextNumeric == CleanAndCastNumericColumns

SpecNumeric == InitNumeric /\ [][NextNumeric]_vars

\* process_lot_details on the frames of at most MaxRows rows, read from a file
\* whose name carries a sale number or from one whose name carries none.
LotCells == {<<"L", "1">>, <<" ", "n", "i", "l">>, NaN}
GradeCells == {<<"P", "F", "1">>, NaN}
PriceCells == {<<"2", "0">>, <<"x">>, NaN}

Frames ==
    UNION {[1..n -> {Cell(l, g, p) : l \in LotCells, g \in GradeCells, p \in PriceCells}] :
              n \in 0..MaxRows}

InitLots ==
    /\ Idle
    /\ \E rows \in Frames, filename \in {OfferFile, ResultFile} :
          call = Calling("process_lot_details",
                         [df |-> [readable |-> TRUE, raises |-> FALSE,
                                  sale_number_internal |-> None,
                                  sale_date_internal |-> None, rows |-> rows],
                          metadata |-> [file_identifier |-> FileIdentifier(filename, 1),
                                        filename |-> filename, timestamp |-> 0]])

ProcessLotDetails ==
    /\ call.fn = "process_lot_details"
    /\ Return(process_lot_details(call.args.df, call.args.metadata))

NextLots == ProcessLotDetails

SpecLots == InitLots /\ [][NextLots]_vars

\* read_csv_file on the files of at most nrows rows that are made of data rows
\* and at most two other rows.
DataRow == <<<<"1">>, <<"P", "F", "1">>, <<"2", "0">>>>
TitleRow == <<<<"M", "a", "r", "k">>, NaN, NaN>>
ThreeKeywordsRow == <<<<"L", "o", "t">>, <<"G", "r", "a", "d", "e">>, <<"P", "r", "i", "c", "e">>, <<"x">>>>
RepeatedKeywordsRow ==
    <<<<"L", "o", "t">>, <<" ", "l", "o", "t">>, <<"L", "O", "T", " ">>, <<"G", "r", "a", "d", "e">>, <<"P", "r", "i", "c", "e">>>>
FourKeywordsRow == <<<<"L", "o", "t">>, <<" ", "g", "r", "a", "d", "e", " ">>, <<"P", "R", "I", "C", "E">>, <<"B", "a", "g", "s">>>>
FiveKeywordsRow ==
    <<<<"L", "o", "t", "N", "o">>, <<"G", "a", "r", "d", "e", "n">>, <<"G", "r", "a", "d", "e">>, <<"K", "i", "l", "o", "s">>, <<"P", "r", "i", "c", "e">>>>

MatrixRows ==
    {DataRow, TitleRow, ThreeKeywordsRow, RepeatedKeywordsRow, FourKeywordsRow,
     FiveKeywordsRow}

InitHeader ==
    /\ Idle
    /\ \E n \in 1..nrows :
          \E p \in 1..n, q \in 1..n, row_p \in MatrixRows, row_q \in MatrixRows :
             /\ p <= q
             /\ call = Calling("read_csv_file",
                               [matrix |-> [i \in 1..n |-> IF i = p THEN row_p
                                                          ELSE IF i = q THEN row_q
                                                          ELSE DataRow]])

ReadCsvFile ==
    /\ call.fn = "read_csv_file"
    /\ Return(read_csv_file(call.args.matrix, HEADER_KEYWORDS))

NextHeader == ReadCsvFile

SpecHeader == InitHeader /\ [][NextHeader]_vars

\* map_columns with the lot-details map on the frames of at most MaxColumns
\* columns, the labels all different (the readers number repeated labels):
\* every alias as listed, aliases in another case or with blanks around them,
\* names of canonical fields and a name that is neither.
ColumnLabels ==
    UNION {Range(COLUMN_MAP_LOT_DETAILS[k].aliases) : k \in DOMAIN COLUMN_MAP_LOT_DETAILS}
    \cup {<<" ", "l", "o", "t", " ", "n", "o", " ">>, <<"L", "O", "T">>,
          <<"p", "r", "i", "c", "e">>,
          <<"l", "o", "t", "_", "n", "u", "m", "b", "e", "r">>,
          <<"q", "u", "a", "n", "t", "i", "t", "y", "_", "k", "g", "s">>,
          <<"R", "e", "m", "a", "r", "k", "s">>}

InitMap ==
    /\ Idle
    /\ \E n \in 0..MaxColumns :
          \E labels \in [1..n -> ColumnLabels] :
             /\ \A i, j \in 1..n : i # j => labels[i] # labels[j]
             /\ call = Calling("map_columns",
                               [df |-> [i \in 1..n |-> Column(labels[i], <<i>>)]])

MapColumns ==
    /\ call.fn = "map_columns"
    /\ Return(map_columns(call.args.df, COLUMN_MAP_LOT_DETAILS))

NextMap == MapColumns

SpecMap == InitMap /\ [][NextMap]_vars

\* determine_final_metadata on file names with and without sale number and
\* date, and mapped frames with and without sale codes and sale dates.
MetadataFiles ==
    {OfferFile, ResultFile, DatedFile, ReportFile, OfferDatedFile, DatedReportFile,
     OfferReportFile}
SaleCodes == {None, "Sale 42 - M2", "SALE35", "Presale 9", "M2", "Sale M2"}
SaleDates == {None, "02/09/2025 12:49:12:300", "2025/07/29", "to be confirmed"}

InitMetadata ==
    /\ Idle
    /\ \E filename \in MetadataFiles, code \in SaleCodes, date \in SaleDates :
          call = Calling("determine_final_metadata",
                         [filename |-> filename,
                          df |-> [readable |-> TRUE, raises |-> FALSE,
                                  sale_number_internal |-> code,
                                  sale_date_internal |-> date,
                                  rows |-> <<Cell(<<"L", "1">>, <<"P", "F", "1">>, <<"2", "0">>)>>]])

DetermineFinalMetadata ==
    /\ call.fn = "determine_final_metadata"
    /\ Return(determine_final_metadata(call.args.filename, call.args.df))

NextMetadata == DetermineFinalMetadata

SpecMetadata == InitMetadata /\ [][NextMetadata]_vars

\* ---------------------------------------------------------------------------
\* run_automation.py: the jobs of the automated pipeline and the git
\* synchronization that follows them
\* ---------------------------------------------------------------------------
\* JOBS_TO_RUN, lines 16-21.
JOBS_TO_RUN ==
    <<[name |-> "Mombasa Processor (ETL)", script |-> "process_mombasa_data.py"],
      [name |-> "Mombasa Analyzer (JSON Generation)", script |-> "analyze_mombasa.py"],
      [name |-> "Build Library (Consolidation)", script |-> "build_library.py"]>>

Scripts == {JOBS_TO_RUN[i].script : i \in DOMAIN JOBS_TO_RUN}

\* main(), line 183.
ENABLE_GIT_SYNC == TRUE

\* What subprocess.run does with a script: the script exits with code 0, it
\* exits with another code (CalledProcessError), or it cannot be launched
\* (TypeError or another exception).
RunOutcomes == {"exit_zero", "exit_nonzero", "launch_error"}

\* run_script, lines 42-80: False when the script is missing, when it exits
\* with a code other than 0 and when it cannot be launched.
run_script(exists, outcome) ==
    IF ~exists THEN FALSE
    ELSE outcome = "exit_zero"

\* What git_sync_repository meets: the repository is valid, it has the
\* remote origin, staging works, the index differs from HEAD, the pull and
\* the push work.
GitOutcomes ==
    [repo : BOOLEAN, origin : BOOLEAN, add : BOOLEAN, changes : BOOLEAN,
     pull : BOOLEAN, push : BOOLEAN]

NoGit ==
    [called |-> FALSE, started |-> FALSE, committed |-> FALSE, pushed |-> FALSE]

\* git_sync_repository, lines 82-155: nothing is done without GitPython, a
\* valid repository and the remote origin; the changes are staged, committed
\* when the index differs from HEAD, and pushed after the pull.
git_sync_repository(available, g) ==
    [called |-> TRUE,
     started |-> available /\ g.repo /\ g.origin,
     committed |-> available /\ g.repo /\ g.origin /\ g.add /\ g.changes,
     pushed |-> available /\ g.repo /\ g.origin /\ g.add /\ g.changes /\ g.pull /\ g.push]

\* The environment of a run of the automation: whether REPO_PATH exists and
\* can be entered, which scripts exist in it, whether GitPython is installed.
Environments ==
    [repo_exists : BOOLEAN, chdir : BOOLEAN, scripts : SUBSET Scripts,
     GIT_AVAILABLE : BOOLEAN]

\* call.value while main() of run_automation.py runs: where it is, the job
\* the loop takes next, all_jobs_successful, the run_script calls made so far
\* with what each returned, and what git_sync_repository did.
MainStarts ==
    [at |-> "start", job |-> 1, all_jobs_successful |-> TRUE, ran |-> <<>>,
     git |-> NoGit, exit_code |-> 0]

InitAutomation ==
    /\ Idle
    /\ \E env \in Environments :
          call = [fn |-> "main", args |-> env, returned |-> FALSE, value |-> MainStarts]

\* main(), lines 157-173: the run ends with exit code 1 when REPO_PATH is
\* missing or cannot be entered.
EnterRepository ==
    /\ call.fn = "main"
    /\ call.value.at = "start"
    /\ call' = IF call.args.repo_exists /\ call.args.chdir
               THEN [call EXCEPT !.value.at = "jobs"]
               ELSE [call EXCEPT !.value.at = "exit", !.value.exit_code = 1,
                                 !.returned = TRUE]
    /\ UNCHANGED pipeline

\* The loop of lines 174-178 without its break.
RunJob_no_break(outcome) ==
    /\ call.fn = "main"
    /\ call.value.at = "jobs"
    /\ LET job == JOBS_TO_RUN[call.value.job]
           ok == run_script(job.script \in call.args.scripts, outcome)
       IN call' = [call EXCEPT
                     !.value.ran = Append(@, [script |-> job.script, returned |-> ok]),
                     !.value.all_jobs_successful = @ /\ ok,
                     !.value.job = @ + 1,
                     !.value.at = IF call.value.job = Len(JOBS_TO_RUN)
                                  THEN "after_jobs" ELSE "jobs"]
    /\ UNCHANGED pipeline

\* main(), lines 174-178: one turn of the loop over JOBS_TO_RUN; the loop ends
\* after the last job and at the first job for which run_script returns False.
RunJob(outcome) ==
    /\ call.fn = "main"
    /\ call.value.at = "jobs"
    /\ LET job == JOBS_TO_RUN[call.value.job]
           ok == run_script(job.script \in call.args.scripts, outcome)
       IN call' = [call EXCEPT
                     !.value.ran = Append(@, [script |-> job.script, returned |-> ok]),
                     !.value.all_jobs_successful = @ /\ ok,
                     !.value.job = IF ok THEN @ + 1 ELSE @,
                     !.value.at = IF ~ok \/ call.value.job = Len(JOBS_TO_RUN)
                                  THEN "after_jobs" ELSE "jobs"]
    /\ UNCHANGED pipeline

\* main(), lines 180-189: git_sync_repository is called when every job
\* succeeded, and the run ends.
FinishMain(g) ==
    /\ call.fn = "main"
    /\ call.value.at = "after_jobs"
    /\ call' = [call EXCEPT
                  !.value.git = IF call.value.all_jobs_successful /\ ENABLE_GIT_SYNC
                                THEN git_sync_repository(call.args.GIT_AVAILABLE, g)
                                ELSE NoGit,
                  !.value.at = "finished",
                  !.returned = TRUE]
    /\ UNCHANGED pipeline

NextAutomation ==
    \/ EnterRepository
    \/ \E outcome \in RunOutcomes : RunJob(outcome)
    \/ \E g \in GitOutcomes : FinishMain(g)

SpecAutomation == InitAutomation /\ [][NextAutomation]_vars

\* ===========================================================================
\* Properties
\* ===========================================================================
\* The step is a call of process_structured_data on filename.
Processes(filename) ==
    /\ last'.op = "process"
    /\ last'.filename = filename

CurrentEntries(filename) ==
    LogKeyed(processing_log, <<filename, mtime[filename]>>,
             identify_file_type(filename).data_type)

CurrentEntriesAfter(filename) ==
    LogKeyed(processing_log', <<filename, mtime[filename]>>,
             identify_file_type(filename).data_type)

TablesUnchanged ==
    /\ auction_offers' = auction_offers
    /\ auction_sales' = auction_sales

\* C1 as stated: processing a file a second time under the same name and
\* modification time (the ledger already has the entry of the first attempt)
\* adds no row, and afterwards the ledger holds exactly one entry for the
\* (file_identifier, data_type), with status SUCCESS.
C1_SecondRunEndsSuccess ==
    [][\A f \in Files :
         (Processes(f) /\ CurrentEntries(f) # {})
            => /\ TablesUnchanged
               /\ Cardinality(CurrentEntriesAfter(f)) = 1
               /\ \A e \in CurrentEntriesAfter(f) : e.status = "SUCCESS"]_vars

\* C1 amended: a second processing of the file under the same name and
\* modification time adds no row, and afterwards the ledger holds exactly one
\* entry for the (file_identifier, data_type); its status is the status the
\* first attempt recorded, which is SUCCESS when that attempt inserted rows.
C1_SecondRunAddsNothing ==
    [][\A f \in Files :
         (Processes(f) /\ CurrentEntries(f) # {})
            => /\ TablesUnchanged
               /\ Cardinality(CurrentEntriesAfter(f)) = 1
               /\ \A e \in CurrentEntries(f), e2 \in CurrentEntriesAfter(f) :
                     /\ e2.status = e.status
                     /\ (e.records_inserted > 0 => e2.status = "SUCCESS")]_vars

\* The second processing of a file that inserted rows the first time: skipped.
C1_Witness ==
    /\ last.op = "process"
    /\ last.outcome = "skipped"
    /\ \E e \in CurrentEntries(last.filename) :
          e.status = "SUCCESS" /\ e.records_inserted > 0

\* The batches process_lot_details makes of a file in the current state.
Lots(filename) ==
    process_lot_details(read_file(content[filename]),
                        [file_identifier |-> <<filename, mtime[filename]>>,
                         filename |-> filename, timestamp |-> clock])

IsLotFile(filename) ==
    identify_file_type(filename).data_type \in {DATA_TYPE_OFFER, DATA_TYPE_SALE}

\* A row without the columns that say when and from which file it was stored.
OfferValues(r) ==
    [source_location |-> r.source_location, sale_date |-> r.sale_date,
     sale_number |-> r.sale_number, grade |-> r.grade, lot_number |-> r.lot_number]

SaleValues(r) ==
    [source_location |-> r.source_location, sale_date |-> r.sale_date,
     sale_number |-> r.sale_number, grade |-> r.grade, lot_number |-> r.lot_number,
     price |-> r.price]

\* The natural key of a row, NULLs included.
NaturalKey(r) == <<r.source_location, r.sale_number, r.lot_number>>

\* Every row the file yields is stored already, with the same values.
RowsStored(filename) ==
    /\ IsLotFile(filename)
    /\ content[filename].readable
    /\ ~content[filename].raises
    /\ Lots(filename).offers_df # <<>>
    /\ \A i \in DOMAIN Lots(filename).offers_df :
          \E j \in DOMAIN auction_offers :
             OfferValues(auction_offers[j]) = OfferValues(Lots(filename).offers_df[i])
    /\ \A i \in DOMAIN Lots(filename).sales_df :
          \E j \in DOMAIN auction_sales :
             SaleValues(auction_sales[j]) = SaleValues(Lots(filename).sales_df[i])

\* C2 as stated: processing a file whose rows are all stored already leaves
\* auction_offers and auction_sales as they were, whatever sale_number was
\* resolved for the file (a null one included).
C2_ReprocessingChangesNoTable ==
    [][\A f \in Files : (Processes(f) /\ RowsStored(f)) => TablesUnchanged]_vars

\* C3 as stated: no table ever holds two rows with the same
\* (source_location, sale_number, lot_number), a null sale_number included.
OneRowPerKey(table) ==
    \A i, j \in DOMAIN table : NaturalKey(table[i]) = NaturalKey(table[j]) => i = j

C3_OneRowPerKey ==
    OneRowPerKey(auction_offers) /\ OneRowPerKey(auction_sales)

\* Every order has been processed to the end.
AllOrdersDone ==
    /\ replay.on
    /\ replay.step = Cardinality(Files)

\* A stored row without its processed_timestamp.
OfferRow(r) ==
    [source_location |-> r.source_location, sale_date |-> r.sale_date,
     sale_number |-> r.sale_number, grade |-> r.grade, lot_number |-> r.lot_number,
     source_file_identifier |-> r.source_file_identifier]

SaleRow(r) ==
    [source_location |-> r.source_location, sale_date |-> r.sale_date,
     sale_number |-> r.sale_number, grade |-> r.grade, lot_number |-> r.lot_number,
     price |-> r.price, source_file_identifier |-> r.source_file_identifier]

Count(table, View(_), v) ==
    Cardinality({i \in DOMAIN table : View(table[i]) = v})

\* Two tables hold the same rows, each as many times, under a view of the rows.
SameUnder(t1, t2, View(_)) ==
    \A t \in {t1, t2} : \A i \in DOMAIN t :
       Count(t1, View, View(t[i])) = Count(t2, View, View(t[i]))

Carried(filename, table_name) ==
    IF ~IsLotFile(filename) \/ content[filename].raises THEN <<>>
    ELSE IF table_name = "auction_offers" THEN Lots(filename).offers_df
    ELSE Lots(filename).sales_df

\* The keys a file hands to the persister for a table.
CarriedKeys(filename, table_name) ==
    {NaturalKey(Carried(filename, table_name)[i]) : i \in DOMAIN Carried(filename, table_name)}

\* The keys with a sale number that two files of the directory carry.
ContestedKeys(table_name) ==
    LET keys == [f \in Files |-> CarriedKeys(f, table_name)] IN
    {key \in UNION {keys[f] : f \in Files} :
        /\ key[2] # None
        /\ \E f, g \in Files : f # g /\ key \in keys[f] /\ key \in keys[g]}

\* The first file of a listing that carries the key.
FirstCarrier(listing, table_name, key) ==
    listing[CHOOSE i \in DOMAIN listing :
               /\ key \in CarriedKeys(listing[i], table_name)
               /\ \A j \in 1..(i - 1) : key \notin CarriedKeys(listing[j], table_name)]

\* Two passes agree on a table but for the rows of contested keys.
AgreeButContested(ta, tb, contested, View(_)) ==
    /\ SameUnder(ta, tb, NaturalKey)
    /\ \A t \in {ta, tb} : \A i \in DOMAIN t :
          NaturalKey(t[i]) \notin contested
             => Count(ta, View, View(t[i])) = Count(tb, View, View(t[i]))

\* A contested key that was not stored before the pass is stored once, from
\* the file that the pass visited first.
FirstCarrierWins(start, table, listing, table_name, contested) ==
    \A i \in DOMAIN table :
       LET key == NaturalKey(table[i]) IN
       (key \in contested /\ Count(start, NaturalKey, key) = 0)
          => /\ Count(table, NaturalKey, key) = 1
             /\ table[i].source_file_identifier =
                   <<FirstCarrier(listing, table_name, key),
                     mtime[FirstCarrier(listing, table_name, key)]>>

SuccessLogged(filename) ==
    \E e \in CurrentEntries(filename) : e.status = "SUCCESS"

\* C5: when the ledger holds a SUCCESS entry for exactly the file's current
\* (file_identifier, data_type), processing the file reads nothing and leaves
\* auction_offers, auction_sales and the ledger entry as they were.
C5_SuccessIsSkipped ==
    [][\A f \in Files :
         (Processes(f) /\ SuccessLogged(f))
            => /\ ~last'.read
               /\ TablesUnchanged
               /\ CurrentEntriesAfter(f) = CurrentEntries(f)
               /\ processing_log' = processing_log]_vars

\* A file with a SUCCESS entry for its current fingerprint was visited and skipped.
C5_Witness ==
    /\ last.op = "process"
    /\ last.outcome = "skipped"
    /\ SuccessLogged(last.filename)
    /\ auction_offers # <<>>

\* The ledger's SUCCESS entries of the file under an earlier modification time.
StaleSuccesses(filename) ==
    {e \in processing_log :
        /\ e.file_identifier[1] = filename
        /\ e.file_identifier[2] < mtime[filename]
        /\ e.status = "SUCCESS"}

\* C6: a file whose modification time changed since its SUCCESS entry is
\* processed again when it is next visited (and can be accessed): it is read,
\* the attempt is recorded under the new file_identifier, and the entry of the
\* previous modification time stays in the ledger.
C6_EditInvalidatesSuccess ==
    [][\A f \in Files :
         (Processes(f) /\ last'.outcome # "access_error"
            /\ StaleSuccesses(f) # {} /\ CurrentEntries(f) = {})
            => /\ last'.read
               /\ Cardinality(CurrentEntriesAfter(f)) = 1
               /\ StaleSuccesses(f) \subseteq processing_log']_vars

\* A touched or edited file was processed again next to its old SUCCESS entry.
C6_Witness ==
    /\ last.op = "process"
    /\ last.read
    /\ StaleSuccesses(last.filename) # {}
    /\ \E e \in CurrentEntries(last.filename) : e.processed_timestamp = clock - 1

\* C7: an attempt that got a file_identifier and was not skipped by the ledger
\* ends with exactly one ledger entry for its (file_identifier, data_type),
\* whose status is SUCCESS, NO_NEW_DATA or FAILURE and whose records_inserted
\* is the number of rows the attempt added to the two tables.
C7_EveryAttemptIsLogged ==
    [][\A f \in Files :
         (Processes(f) /\ last'.outcome \notin {"access_error", "skipped"})
            => /\ Cardinality(CurrentEntriesAfter(f)) = 1
               /\ \A e \in CurrentEntriesAfter(f) :
                     /\ e.status \in {"SUCCESS", "NO_NEW_DATA", "FAILURE"}
                     /\ e.status = last'.outcome
                     /\ e.processed_timestamp = clock + 1
                     /\ e.records_inserted =
                           (Len(auction_offers') - Len(auction_offers))
                              + (Len(auction_sales') - Len(auction_sales))]_vars

\* An attempt that raised during processing was logged as FAILURE, after an
\* attempt that was logged as SUCCESS.
C7_Witness ==
    /\ last.op = "process"
    /\ last.outcome = "FAILURE"
    /\ content[last.filename].raises
    /\ \E e \in processing_log : e.status = "SUCCESS"
    /\ \E e \in CurrentEntries(last.filename) : e.processed_timestamp > 1

\* The ledger's entry for the file's current fingerprint is FAILURE or NO_NEW_DATA.
NotSuccessLogged(filename) ==
    \E e \in CurrentEntries(filename) : e.status \in {"FAILURE", "NO_NEW_DATA"}

\* C8: a file whose entry for its current fingerprint is FAILURE or NO_NEW_DATA
\* is read again whenever a run visits it (and can access it), and a run never
\* visits a file twice: while a run lasts its listing only shrinks, and the
\* file just processed has left it.
C8_FailureIsRetriedNextRun ==
    [][/\ \A f \in Files :
            (Processes(f) /\ last'.outcome # "access_error" /\ NotSuccessLogged(f))
               => last'.read
       /\ \A f \in Files : Processes(f) => f \notin pending'
       /\ (running /\ running') => pending' \subseteq pending]_vars

\* A file with a FAILURE entry for its fingerprint was read again by a later
\* run: the only entry of the ledger is the one of the second attempt.
C8_Witness ==
    /\ last.op = "process"
    /\ last.read
    /\ last.outcome = "FAILURE"
    /\ \E e \in CurrentEntries(last.filename) :
          e.status = "FAILURE" /\ e.processed_timestamp > 1
    /\ Cardinality(processing_log) = 1

\* The step called insert_data on the batches of the file.
Persists(filename) ==
    /\ Processes(filename)
    /\ IsLotFile(filename)
    /\ last'.outcome \in {"SUCCESS", "NO_NEW_DATA"}

\* No row of the batch violates the uniqueness constraint, against a stored
\* row or against another row of the batch.
NoConflict(table, df) ==
    /\ \A i \in DOMAIN df : \A j \in DOMAIN table : ~UniqueConflict(df[i], table[j])
    /\ \A i, j \in DOMAIN df : i # j => ~UniqueConflict(df[i], df[j])

ReturnsRowsAdded(returned, before, after, df) ==
    /\ returned = Len(after) - Len(before)
    /\ NoConflict(before, df) => returned = Len(df)
    /\ ~NoConflict(before, df) => returned < Len(df)

\* C9: the value insert_data returns is the number of rows the call added to
\* the table: the batch size when no row of the batch conflicts with a stored
\* row or another row of the batch, fewer otherwise.
C9_ReturnsRowsAdded ==
    [][\A f \in Files :
         Persists(f)
            => /\ ReturnsRowsAdded(last'.inserted_offers, auction_offers,
                                   auction_offers', Lots(f).offers_df)
               /\ ReturnsRowsAdded(last'.inserted_sales, auction_sales,
                                   auction_sales', Lots(f).sales_df)]_vars

\* The fallback inserted some rows of a batch and discarded others.
C9_Witness ==
    /\ last.op = "process"
    /\ last.outcome = "SUCCESS"
    /\ last.inserted_offers > 0
    /\ last.inserted_offers < Len(Lots(last.filename).offers_df)
    /\ Len(auction_offers) > last.inserted_offers

\* Insert-if-absent on the natural key (source_location, sale_number, lot_number).
RECURSIVE InsertIfAbsent(_, _)
InsertIfAbsent(table, df) ==
    IF df = <<>> THEN table
    ELSE IF \E j \in DOMAIN table : NaturalKey(table[j]) = NaturalKey(Head(df))
    THEN InsertIfAbsent(table, Tail(df))
    ELSE InsertIfAbsent(Append(table, Head(df)), Tail(df))

\* C10 as stated: insert_data is insert-if-absent on the natural key: the rows
\* stored before stay as they are, a batch row whose key is stored already (or
\* was inserted earlier from the same batch) is discarded, every other batch
\* row is stored.
C10_InsertIfAbsent ==
    [][\A f \in Files :
         Persists(f)
            => /\ auction_offers' = InsertIfAbsent(auction_offers, Lots(f).offers_df)
               /\ auction_sales' = InsertIfAbsent(auction_sales, Lots(f).sales_df)]_vars

\* ---------------------------------------------------------------------------
\* Numeric cleaning
\* ---------------------------------------------------------------------------
RECURSIVE Pow10(_)
Pow10(n) == IF n = 0 THEN 1 ELSE 10 * Pow10(n - 1)

Abs(m) == IF m < 0 THEN 0 - m ELSE m

\* The float with its fraction cut off (towards zero); NaN stays NaN.
Truncated(v) ==
    IF v = NaN THEN NaN
    ELSE LET whole == Abs(v[1]) \div Pow10(0 - v[2])
         IN Float(IF v[1] < 0 THEN 0 - whole ELSE whole, 0)

\* The float rounded to the nearest integer (halves away from zero).
Rounded(v) ==
    IF v = NaN THEN NaN
    ELSE LET whole == (2 * Abs(v[1]) + Pow10(0 - v[2])) \div (2 * Pow10(0 - v[2]))
         IN Float(IF v[1] < 0 THEN 0 - whole ELSE whole, 0)

NumericCallReturned ==
    call.fn = "clean_and_cast_numeric_columns" /\ call.returned

\* The text without its i-th character.
Without(text, i) == SubSeq(text, 1, i - 1) \o SubSeq(text, i + 1, Len(text))

\* A digit stands before the first decimal point of the text.
DigitBeforePoint(text) ==
    \E i \in DOMAIN text :
       /\ text[i] \in DigitChars
       /\ \A j \in 1..i : text[j] # "."

LotsCallReturned ==
    call.fn = "process_lot_details" /\ call.returned

\* The i-th row of the frame as the cleaners leave it.
Cleaned(rows, i) ==
    [lot_number |-> clean_text(rows[i].lot_number),
     grade |-> clean_text(rows[i].grade),
     price |-> clean_and_cast_numeric_columns("price", rows[i].price)]

\* The rows of the frame, by index, that have a lot number / also a price.
Listed(rows) == {i \in DOMAIN rows : Cleaned(rows, i).lot_number # NaN}
Priced(rows) == {i \in Listed(rows) : Cleaned(rows, i).price # NaN}

\* The place of row i among the rows of kept.
Place(kept, i) == Cardinality({k \in kept : k <= i})

\* C11: of the cleaned rows of a frame, those with a null lot_number are in
\* neither output; every other row is in the offers, and is in the sales if and
\* only if its cleaned price is not null.
C11_RowsAreClassified ==
    LotsCallReturned =>
       LET rows == call.args.df.rows
           offers_df == call.value.offers_df
           sales_df == call.value.sales_df
       IN
       /\ Len(offers_df) = Cardinality(Listed(rows))
       /\ Len(sales_df) = Cardinality(Priced(rows))
       /\ \A i \in Listed(rows) :
             LET offer == offers_df[Place(Listed(rows), i)] IN
             /\ offer.lot_number = Cleaned(rows, i).lot_number
             /\ offer.grade = Cleaned(rows, i).grade
       /\ \A i \in Priced(rows) :
             LET sale == sales_df[Place(Priced(rows), i)] IN
             /\ sale.lot_number = Cleaned(rows, i).lot_number
             /\ sale.grade = Cleaned(rows, i).grade
             /\ sale.price = Cleaned(rows, i).price

\* A frame with a row without lot number, a row with an unparseable price and
\* a row with a price has been split: two offers, one sale.
C11_Witness ==
    /\ LotsCallReturned
    /\ \E i, j, k \in DOMAIN call.args.df.rows :
          /\ call.args.df.rows[i].lot_number = <<" ", "n", "i", "l">>
          /\ call.args.df.rows[i].price = <<"2", "0">>
          /\ call.args.df.rows[j] = Cell(<<"L", "1">>, <<"P", "F", "1">>, <<"x">>)
          /\ call.args.df.rows[k] = Cell(<<"L", "1">>, NaN, <<"2", "0">>)
    /\ Len(call.value.offers_df) = 2
    /\ Len(call.value.sales_df) = 1
    /\ call.value.sales_df[1].price = <<20, 0>>

\* ---------------------------------------------------------------------------
\* Lot numbers of the stored rows
\* ---------------------------------------------------------------------------
\* The cell is empty or holds a noise token once trimmed and upper-cased.
IsNoise(cell) == cell = NaN \/ Upper(Strip(cell)) \in NOISE_VALUES

\* The rows the last step added to a table come from rows of the file whose
\* lot_number cell is not noise.
AddedFromLots(table, added, rows) ==
    \A i \in (Len(table) - added + 1)..Len(table) :
       \E k \in DOMAIN rows :
          /\ ~IsNoise(rows[k].lot_number)
          /\ table[i].lot_number = Upper(Strip(rows[k].lot_number))

\* C12: no stored row of auction_offers or auction_sales has a null
\* lot_number, and a row of a file whose lot_number cell is empty or a noise
\* token is never stored, whatever its other cells hold.
C12_NoNullLotNumber ==
    /\ \A table \in {auction_offers, auction_sales} : \A i \in DOMAIN table :
          /\ table[i].lot_number # NaN
          /\ table[i].lot_number \notin NOISE_VALUES
    /\ (last.op = "process" /\ last.read) =>
          /\ AddedFromLots(auction_offers, last.inserted_offers, content[last.filename].rows)
          /\ AddedFromLots(auction_sales, last.inserted_sales, content[last.filename].rows)
          /\ last.inserted_offers
                <= Cardinality({k \in DOMAIN content[last.filename].rows :
                                   ~IsNoise(content[last.filename].rows[k].lot_number)})

\* A file with a priced and graded row whose lot_number is "-" has been
\* processed and rows of it were stored.
C12_Witness ==
    /\ last.op = "process"
    /\ last.inserted_offers > 0
    /\ last.inserted_sales > 0
    /\ \E k \in DOMAIN content[last.filename].rows :
          /\ content[last.filename].rows[k].lot_number = <<"-">>
          /\ content[last.filename].rows[k].grade # NaN
          /\ content[last.filename].rows[k].price # NaN

\* ---------------------------------------------------------------------------
\* Header detection
\* ---------------------------------------------------------------------------
ReaderReturned ==
    call.fn = "read_csv_file" /\ call.returned

\* The expected keywords, trimmed and upper-cased.
KeywordTokenSet == {Upper(Strip(HEADER_KEYWORDS[k])) : k \in DOMAIN HEADER_KEYWORDS}

\* The number of distinct expected keywords among the cells of a row, cells
\* and keywords compared trimmed and upper-cased.
KeywordTokens(row) ==
    Cardinality({token \in {Upper(Strip(row[c])) : c \in {d \in DOMAIN row : row[d] # NaN}} :
                    token \in KeywordTokenSet})

\* C13: when exactly one row of the matrix handed to the detector holds at
\* least 4 distinct keywords and every other row holds fewer, the detector
\* returns the index of that row, wherever the row is in the matrix.
C13_FindsTheHeaderRow ==
    ReaderReturned =>
       LET temp_df == call.args.matrix
           tokens == [i \in DOMAIN temp_df |-> KeywordTokens(temp_df[i])]
       IN
       \A i \in DOMAIN temp_df :
          (/\ tokens[i] >= 4
           /\ \A j \in DOMAIN temp_df \ {i} : tokens[j] < 4)
             => call.value.header_row = i - 1

\* C14: when no scanned row holds min(4, number of keywords) keywords, the
\* detector returns 0, not the index of the best row, and the file is read with
\* row 0 as its header.
C14_DefaultsToRowZero ==
    ReaderReturned =>
       LET temp_df == call.args.matrix
           tokens == [i \in DOMAIN temp_df |-> KeywordTokens(temp_df[i])]
       IN
       (\A i \in 1..Min(Len(temp_df), max_rows) : tokens[i] < Min(4, Len(HEADER_KEYWORDS)))
          => /\ call.value.header_row = 0
             /\ call.value.columns = temp_df[1]
             /\ Len(call.value.data) = Len(temp_df) - 1

\* The best scanned row, with three keywords, is not row 0, and row 0 was
\* returned.
C14_Witness ==
    /\ ReaderReturned
    /\ call.value.header_row = 0
    /\ call.value.columns = DataRow
    /\ Len(call.args.matrix) = 3
    /\ call.args.matrix[2] = ThreeKeywordsRow
    /\ call.args.matrix[3] = TitleRow
    /\ KeywordTokens(ThreeKeywordsRow) = 3
    /\ KeywordTokens(RepeatedKeywordsRow) = 3

\* ---------------------------------------------------------------------------
\* Column mapping
\* ---------------------------------------------------------------------------
MapReturned ==
    call.fn = "map_columns" /\ call.returned

\* The aliases of every canonical field, trimmed and upper-cased.
AliasTokens ==
    [k \in DOMAIN COLUMN_MAP_LOT_DETAILS |->
        {Upper(Strip(COLUMN_MAP_LOT_DETAILS[k].aliases[a])) :
            a \in DOMAIN COLUMN_MAP_LOT_DETAILS[k].aliases}]

\* The columns of df whose name is an alias of the k-th canonical field, up to
\* letter case and the blanks around it.
Matching(df, k) == {i \in DOMAIN df : Upper(Strip(df[i].label)) \in AliasTokens[k]}

\* The columns of the output that bear the name of the k-th canonical field.
Named(out, k) == {c \in DOMAIN out : out[c].label = COLUMN_MAP_LOT_DETAILS[k].name}

\* C15: a source column whose name is an alias of a canonical field (the first
\* such column of the frame) is mapped to that field, and a source column whose
\* name is no alias of any field does not appear in the output under any name.
C15_AliasesMapOthersDrop ==
    MapReturned =>
       LET df == call.args.df
           out == call.value
       IN
       /\ \A k \in DOMAIN COLUMN_MAP_LOT_DETAILS : \A i \in Matching(df, k) :
             (\A j \in Matching(df, k) : i <= j)
                => \E c \in Named(out, k) : out[c].values = df[i].values
       /\ \A i \in DOMAIN df :
             (\A k \in DOMAIN COLUMN_MAP_LOT_DETAILS : i \notin Matching(df, k))
                => \A c \in DOMAIN out : out[c].values # df[i].values

\* C16: whatever the column names of the input, the columns of the output are
\* the canonical field names, each exactly once, and a field that no source
\* column matched is a column of nulls.
C16_ExactlyTheCanonicalColumns ==
    MapReturned =>
       LET df == call.args.df
           out == call.value
       IN
       /\ Len(out) = Len(COLUMN_MAP_LOT_DETAILS)
       /\ \A k \in DOMAIN COLUMN_MAP_LOT_DETAILS :
             /\ Cardinality(Named(out, k)) = 1
             /\ Matching(df, k) = {} => \A c \in Named(out, k) : out[c].values = NaN

\* C17: when several source columns match aliases of one canonical field, the
\* canonical column has the values of the leftmost of them, and the later ones
\* give the output no column and no values.
C17_LeftmostMatchWins ==
    MapReturned =>
       LET df == call.args.df
           out == call.value
       IN
       \A k \in DOMAIN COLUMN_MAP_LOT_DETAILS :
          Cardinality(Matching(df, k)) >= 2 =>
             \A i \in Matching(df, k) :
                IF \A j \in Matching(df, k) : i <= j
                THEN /\ Cardinality(Named(out, k)) = 1
                     /\ \A c \in Named(out, k) : out[c].values = df[i].values
                ELSE \A c \in DOMAIN out : out[c].values # df[i].values

\* ---------------------------------------------------------------------------
\* Metadata of a file
\* ---------------------------------------------------------------------------
MetadataReturned ==
    call.fn = "determine_final_metadata" /\ call.returned

\* The field of the final metadata is the embedded value when there is one,
\* else the filename value when there is one, else null.
Resolved(final, embedded, from_filename) ==
    /\ embedded # None => final = embedded
    /\ (embedded = None /\ from_filename # None) => final = from_filename
    /\ (embedded = None /\ from_filename = None) => final = None

\* C18: sale_number and sale_date are resolved each on its own: the embedded
\* value if there is one, else the filename value if there is one, else null.
C18_FieldsResolvedIndependently ==
    MetadataReturned =>
       LET fn == extract_metadata_from_filename(call.args.filename)
           emb == extract_metadata_from_dataframe(call.args.df)
       IN /\ Resolved(call.value.sale_number, emb.sale_number, fn.sale_number)
          /\ Resolved(call.value.sale_date, emb.sale_date, fn.sale_date)

\* The final pair has the sale number of the embedded data and the sale date
\* of the file name.
C18_Witness ==
    /\ MetadataReturned
    /\ call.args.filename = DatedFile
    /\ call.args.df.sale_number_internal = "SALE35"
    /\ call.args.df.sale_date_internal = "to be confirmed"
    /\ call.value = [sale_number |-> "35", sale_date |-> "2025-10-14"]

\* The last step processed a readable lot file, on which process_lot_details
\* does not raise, for which neither the file name nor the data gives a sale
\* number.
ProcessedWithoutSaleNumber ==
    /\ last.op = "process"
    /\ last.read
    /\ last.data_type \in {DATA_TYPE_OFFER, DATA_TYPE_SALE}
    /\ content[last.filename].readable
    /\ ~content[last.filename].raises
    /\ extract_metadata_from_filename(last.filename).sale_number = None
    /\ extract_metadata_from_dataframe(content[last.filename]).sale_number = None

\* The rows the last step added to a table carry no sale number and no sale date.
AddedWithoutSale(table, added) ==
    \A i \in (Len(table) - added + 1)..Len(table) :
       /\ table[i].sale_number = None
       /\ table[i].sale_date = None
       /\ table[i].source_file_identifier = last.file_identifier

\* C19: a file for which no sale number can be determined is not a FAILURE,
\* and every row of it with a lot number reaches the tables, stamped with a
\* null sale_number and sale_date.
C19_RowsKeptWithoutSaleNumber ==
    ProcessedWithoutSaleNumber =>
       LET rows == content[last.filename].rows IN
       /\ last.outcome # "FAILURE"
       /\ last.inserted_offers
             = Cardinality({k \in DOMAIN rows : ~IsNoise(rows[k].lot_number)})
       /\ last.inserted_sales
             = Cardinality({k \in DOMAIN rows :
                               /\ ~IsNoise(rows[k].lot_number)
                               /\ rows[k].price # NaN})
       /\ AddedWithoutSale(auction_offers, last.inserted_offers)
       /\ AddedWithoutSale(auction_sales, last.inserted_sales)

\* Results.csv, with no sale code in its data, has been processed: three
\* offers and two sales without sale number were stored.
C19_Witness ==
    /\ ProcessedWithoutSaleNumber
    /\ last.filename = ResultFile
    /\ last.outcome = "SUCCESS"
    /\ last.inserted_offers = 3
    /\ last.inserted_sales = 2
    /\ auction_offers[Len(auction_offers)].sale_number = None

\* ---------------------------------------------------------------------------
\* The filename patterns
\* ---------------------------------------------------------------------------
\* The index of the first of the three patterns that matches the name; 0 when
\* none does.
FirstPattern(filename) ==
    IF pattern1(filename).matched THEN 1
    ELSE IF pattern2(filename).matched THEN 2
    ELSE IF pattern3(filename).matched THEN 3
    ELSE 0

\* What the first matching pattern alone finds in the name.
FromPattern(filename, k) ==
    CASE k = 1 -> [sale_number |-> pattern1(filename).groups[1],
                   sale_date |-> IF date_part_match(filename).matched
                                 THEN parse_date(date_part_match(filename).groups[1])
                                 ELSE None]
      [] k = 2 -> [sale_number |-> pattern2(filename).groups[1],
                   sale_date |-> parse_date(pattern2(filename).groups[2])]
      [] k = 3 -> [sale_number |-> pattern3(filename).groups[1], sale_date |-> None]
      [] k = 0 -> NoMetadata

\* C25: the metadata of a file name are those of the first of the patterns
\* Sale_No_<N>_, Sale <N> (<date>), GeneralReport (<N>) that matches it; a later
\* pattern that matches too gives neither the sale number nor the sale date.
C25_FirstMatchingPatternWins ==
    MetadataReturned =>
       LET filename == call.args.filename
           found == FromPattern(filename, FirstPattern(filename))
       IN /\ extract_metadata_from_filename(filename) = found
          /\ extract_metadata_from_dataframe(call.args.df) = NoMetadata
                => call.value = found

\* A name that patterns 1 and 2 both match: the number is that of pattern 1
\* and the date in parentheses is not taken.
C25_Witness ==
    /\ MetadataReturned
    /\ call.args.filename = OfferDatedFile
    /\ pattern1(call.args.filename).matched
    /\ pattern2(call.args.filename).matched
    /\ call.args.df.sale_number_internal = None
    /\ call.args.df.sale_date_internal = None
    /\ call.value = [sale_number |-> "42", sale_date |-> None]

\* ---------------------------------------------------------------------------
\* Files that cannot be read
\* ---------------------------------------------------------------------------
\* The step read filename and got the empty frame: the file is corrupt, of an
\* unsupported format, or has no rows.
ReadsNothing(filename) ==
    /\ Processes(filename)
    /\ last'.read
    /\ read_file(content[filename]).rows = <<>>

\* C22: an attempt whose file cannot be read, or has no rows, adds nothing to
\* auction_offers and auction_sales and leaves the ledger entry of its
\* (file_identifier, data_type) with status FAILURE and records_inserted 0.
C22_UnreadableIsFailure ==
    [][\A f \in Files :
         ReadsNothing(f)
            => /\ TablesUnchanged
               /\ last'.outcome = "FAILURE"
               /\ CurrentEntriesAfter(f) # {}
               /\ \A e \in CurrentEntriesAfter(f) :
                     e.status = "FAILURE" /\ e.records_inserted = 0]_vars

\* An unreadable lot file was attempted while the tables held rows of another
\* file, and its entry says FAILURE.
C22_Witness ==
    /\ last.op = "process"
    /\ last.read
    /\ last.data_type \in {DATA_TYPE_OFFER, DATA_TYPE_SALE}
    /\ ~content[last.filename].readable
    /\ auction_offers # <<>>
    /\ \E e \in CurrentEntries(last.filename) :
          e.status = "FAILURE" /\ e.records_inserted = 0

\* ---------------------------------------------------------------------------
\* Metadata of the stored rows
\* ---------------------------------------------------------------------------
\* The sale number, sale date and source location stamped on a stored row.
FileMetadata(r) ==
    [sale_number |-> r.sale_number, sale_date |-> r.sale_date,
     source_location |-> r.source_location]

StoredRows == Range(auction_offers) \cup Range(auction_sales)

\* C24: two stored rows, of either table, that come from the same file (the
\* same source_file_identifier) carry the same sale_number, sale_date and
\* source_location.
C24_MetadataUniformPerFile ==
    \A r1 \in StoredRows, r2 \in StoredRows :
       r1.source_file_identifier = r2.source_file_identifier
          => FileMetadata(r1) = FileMetadata(r2)

\* Rows of two files are stored, one file with sale number 42 and several
\* rows, in both tables.
C24_Witness ==
    /\ \E i \in DOMAIN auction_offers, j \in DOMAIN auction_offers :
          /\ i # j
          /\ auction_offers[i].source_file_identifier = auction_offers[j].source_file_identifier
          /\ auction_offers[i].lot_number # auction_offers[j].lot_number
          /\ auction_offers[i].sale_number = "42"
    /\ \E r \in StoredRows : r.sale_number = None
    /\ \E r \in Range(auction_sales) : r.sale_number = "42"

\* ---------------------------------------------------------------------------
\* The ledger
\* ---------------------------------------------------------------------------
\* C26: a ledger entry with status SUCCESS is in the ledger, unchanged, after
\* every step: no later attempt or run replaces it or removes it.
C26_SuccessIsFinal ==
    [][\A e \in processing_log :
          e.status = "SUCCESS" => e \in processing_log']_vars

\* A file whose entry says SUCCESS was rewritten and processed again: the
\* attempt was logged, and the SUCCESS entry of the first attempt is still there.
C26_Witness ==
    /\ last.op = "process"
    /\ last.read
    /\ \E e \in processing_log :
          /\ e.status = "SUCCESS"
          /\ e.file_identifier = FileIdentifier(last.filename, 1)
          /\ e.processed_timestamp = 1
    /\ \E later \in CurrentEntries(last.filename) :
          /\ later.file_identifier = FileIdentifier(last.filename, 2)
          /\ later.processed_timestamp > 1

\* The step logged an attempt on a lot file (OFFER or SALE).
LogsLotFile(filename) ==
    /\ Processes(filename)
    /\ last'.data_type \in {DATA_TYPE_OFFER, DATA_TYPE_SALE}
    /\ last'.outcome \in {"SUCCESS", "NO_NEW_DATA", "FAILURE"}

\* C27: in the ledger an entry with status SUCCESS has records_inserted > 0
\* and one with status NO_NEW_DATA has records_inserted = 0; the
\* records_inserted logged for an OFFER or SALE file is the number of rows the
\* attempt added to auction_offers plus the number it added to auction_sales.
C27_StatusAgreesWithCount ==
    [][/\ \A e \in processing_log' :
             /\ e.status = "SUCCESS" => e.records_inserted > 0
             /\ e.status = "NO_NEW_DATA" => e.records_inserted = 0
       /\ \A f \in Files :
             LogsLotFile(f)
                => /\ SubSeq(auction_offers', 1, Len(auction_offers)) = auction_offers
                   /\ SubSeq(auction_sales', 1, Len(auction_sales)) = auction_sales
                   /\ \A e \in CurrentEntriesAfter(f) :
                         e.records_inserted + Len(auction_offers) + Len(auction_sales)
                            = Len(auction_offers') + Len(auction_sales')]_vars

\* A lot file with lots was logged NO_NEW_DATA with no record, its rows being
\* stored already, next to a SUCCESS entry with more than one record.
C27_Witness ==
    /\ last.op = "process"
    /\ last.outcome = "NO_NEW_DATA"
    /\ last.data_type \in {DATA_TYPE_OFFER, DATA_TYPE_SALE}
    /\ \E k \in DOMAIN content[last.filename].rows :
          ~IsNoise(content[last.filename].rows[k].lot_number)
    /\ \E e \in CurrentEntries(last.filename) : e.records_inserted = 0
    /\ \E e \in processing_log : e.status = "SUCCESS" /\ e.records_inserted > 1

\* ---------------------------------------------------------------------------
\* Sales and offers
\* ---------------------------------------------------------------------------
\* The table has a row with the (source_location, sale_number, lot_number) of r.
HasKeyOf(table, r) ==
    \E i \in DOMAIN table : NaturalKey(table[i]) = NaturalKey(r)

\* C28: after every step each row of auction_sales has a row of
\* auction_offers with the same (source_location, sale_number, lot_number),
\* and the rows that were stored before the step are still there.
C28_EverySaleHasItsOffer ==
    [][/\ \A j \in DOMAIN auction_sales' : HasKeyOf(auction_offers', auction_sales'[j])
       /\ SubSeq(auction_offers', 1, Len(auction_offers)) = auction_offers
       /\ SubSeq(auction_sales', 1, Len(auction_sales)) = auction_sales]_vars

\* Two files were ingested, one with sale number 42 and one without a sale
\* number; sold and unsold lots are stored, and the last file added sales.
C28_Witness ==
    /\ last.op = "process"
    /\ last.inserted_sales > 0
    /\ last.inserted_offers > last.inserted_sales
    /\ \E j \in DOMAIN auction_sales : auction_sales[j].sale_number = "42"
    /\ \E j \in DOMAIN auction_sales :
          /\ auction_sales[j].sale_number = None
          /\ HasKeyOf(auction_offers, auction_sales[j])
    /\ Len(auction_offers) > Len(auction_sales)

\* ---------------------------------------------------------------------------
\* Summary files
\* ---------------------------------------------------------------------------
\* C29: processing a file classified as SUMMARY changes no table and is never
\* skipped: unless the file's stats cannot be read, the file is read and the
\* attempt logged with records_inserted 0, as FAILURE when the frame is empty
\* and as NO_NEW_DATA otherwise, never as SUCCESS.
C29_SummaryStoresNothing ==
    [][\A f \in Files :
         (Processes(f) /\ last'.data_type = DATA_TYPE_SUMMARY)
            => /\ TablesUnchanged
               /\ last'.outcome \in {"access_error", "NO_NEW_DATA", "FAILURE"}
               /\ last'.outcome # "access_error"
                     => /\ last'.read
                        /\ last'.outcome = "FAILURE" <=> read_file(content[f]).rows = <<>>
                        /\ CurrentEntriesAfter(f) # {}
                        /\ \A e \in CurrentEntriesAfter(f) :
                              e.status = last'.outcome /\ e.records_inserted = 0]_vars

\* The summary file, logged NO_NEW_DATA by a first run, was read again by a
\* second run and logged NO_NEW_DATA again.
C29_Witness ==
    /\ last.op = "process"
    /\ last.data_type = DATA_TYPE_SUMMARY
    /\ last.read
    /\ last.outcome = "NO_NEW_DATA"
    /\ mtime[last.filename] = 1
    /\ processing_log = CurrentEntries(last.filename)
    /\ \E e \in processing_log : e.processed_timestamp = 3 /\ e.status = "NO_NEW_DATA"

\* ---------------------------------------------------------------------------
\* The loop over the directory listing
\* ---------------------------------------------------------------------------
\* The file is one the loop hands to process_structured_data.
Structured(filename) ==
    /\ ~IsHidden(filename)
    /\ identify_file_type(filename).structure_type = "structured"

\* The step took filename off the files still to visit.
Visits(filename) == filename \in pending /\ filename \notin pending'

\* C21: in a run every file of the listing that is not hidden and is
\* classified as structured is attempted, whatever happened to the files before
\* it: a visit, failed or not, takes only its own file off the listing and
\* leaves the run going, a structured file is taken off only by an attempt on
\* it (skipped by the ledger, logged as SUCCESS, NO_NEW_DATA or FAILURE, or
\* given up because its stats cannot be read), and the run ends only when no
\* file is left.
C21_EveryFileIsAttempted ==
    [][/\ (running /\ ~running') => pending = {}
       /\ \A f \in Listing :
             Visits(f)
                => /\ running'
                   /\ pending' = pending \ {f}
                   /\ last'.filename = f
                   /\ Structured(f)
                         => /\ last'.op = "process"
                            /\ last'.outcome \in {"skipped", "SUCCESS", "NO_NEW_DATA",
                                                  "FAILURE", "access_error"}
                            /\ last'.outcome \in {"SUCCESS", "NO_NEW_DATA", "FAILURE"}
                                  => \E e \in CurrentEntriesAfter(f) :
                                        e.status = last'.outcome]_vars

\* In the run the hidden file was passed over, the attempt on one file was
\* logged as FAILURE, the next attempt stored the rows of another file, and
\* files are still to be visited.
C21_Witness ==
    /\ running
    /\ last.op = "process"
    /\ last.outcome = "SUCCESS"
    /\ \E e \in processing_log :
          /\ e.status = "FAILURE"
          /\ e.processed_timestamp = 1
          /\ e.file_identifier # last.file_identifier
    /\ HiddenFile \notin pending
    /\ pending # {}

\* ---------------------------------------------------------------------------
\* Termination of the process and resumption
\* ---------------------------------------------------------------------------
\* The store after a run on the empty store that visits the first n files of
\* the listing order and is not interrupted.
RECURSIVE RunAll(_, _)
RunAll(order, n) ==
    IF n = 0 THEN EmptyStore
    ELSE LoopBody(RunAll(order, n - 1), order[n], 2 * (n - 1))

\* The tables hold what a run that was never interrupted leaves in them
\* (processing timestamps ignored).
AsUninterrupted ==
    LET whole == RunAll(ListedOrder, Len(ListedOrder))
    IN /\ SameUnder(auction_offers, whole.auction_offers, OfferRow)
       /\ SameUnder(auction_sales, whole.auction_sales, SaleRow)

\* C23: when the process terminates during a run, the rows stored before stay
\* stored and the file it terminated in has no SUCCESS entry, and a run that
\* ends after that leaves auction_offers and auction_sales as a run that was
\* never interrupted leaves them.
C23_ResumedRunGivesSameTables ==
    /\ last.op = "terminate" /\ last.filename # None => ~SuccessLogged(last.filename)
    /\ last.op = "finish" => AsUninterrupted

\* ---------------------------------------------------------------------------
\* The jobs of the automation and the git synchronization
\* ---------------------------------------------------------------------------
\* The run_script calls made so far are the first jobs of JOBS_TO_RUN, in the
\* order of the list.
RanInListOrder ==
    /\ Len(call.value.ran) <= Len(JOBS_TO_RUN)
    /\ \A i \in DOMAIN call.value.ran : call.value.ran[i].script = JOBS_TO_RUN[i].script

\* No job was started after a job that failed.
NothingAfterFailure ==
    \A i \in DOMAIN call.value.ran :
       ~call.value.ran[i].returned => i = Len(call.value.ran)

EveryJobSucceeded ==
    /\ Len(call.value.ran) = Len(JOBS_TO_RUN)
    /\ \A i \in DOMAIN call.value.ran : call.value.ran[i].returned

\* C30: the automation runs its jobs in the order of JOBS_TO_RUN, starts no
\* job after one that failed, and calls the git synchronization (and so
\* commits or pushes) only when every job succeeded.
C30_GitSyncOnlyAfterEveryJob ==
    /\ RanInListOrder
    /\ NothingAfterFailure
    /\ (call.value.git.called \/ call.value.git.started
          \/ call.value.git.committed \/ call.value.git.pushed) => EveryJobSucceeded

\* The first job succeeded, the second failed: the run is over, the third job
\* was never started and nothing was committed.
C30_Witness ==
    /\ call.value.at = "finished"
    /\ Len(call.value.ran) = 2
    /\ call.value.ran[1].returned
    /\ ~call.value.ran[2].returned
    /\ call.value.ran[2].script \in call.args.scripts
    /\ call.value.git = NoGit
    /\ call.args.GIT_AVAILABLE

====
